---- MODULE Spec2Model ----
(***************************************************************************)
(* Dual-mode session orchestrator of anyware-cli: the MessageQueue, the    *)
(* Session permission relay, the Local and Remote drivers and the mode     *)
(* loop.                                                                   *)
(*                                                                         *)
(* Every handler of the program runs to completion on one event loop, so   *)
(* an action of this module is one event-loop turn.  The one turn whose    *)
(* inner order matters (the permission callback canCallTool) is split      *)
(* into its statements; while it runs (turn # "idle") no other action is   *)
(* enabled.                                                                *)
(*                                                                         *)
(* Specifications:                                                         *)
(*   SpecQueue    a MessageQueue driven through its public methods         *)
(*   SpecSession  the permission relay of a Session driven through its     *)
(*                public methods and its inbound message handler           *)
(*   Spec         the mode loop with both drivers, the session, the queue, *)
(*                the cloud collaborator, the keyboard and the assistant   *)
(*   FairSpec     Spec with the event loop running its ready continuations *)
(***************************************************************************)
EXTENDS Integers, Sequences, FiniteSets, TLC

VARIABLES
    mq,        \* the MessageQueue object (fields + the record of its waits)
    hist,      \* SpecQueue: the methods called on the queue so far
    session,   \* the Session object's permission relay and handler fields
    now,       \* Date.now()
    ticks,     \* number of clock advances so far
    calls,     \* SpecSession: what the last method call returned
    loop,      \* the mode loop: [pc, mode]
    local,     \* the Local driver invocation
    remote,    \* the Remote driver invocation
    requests,  \* every canCallTool invocation, in order
    turn,      \* position inside the running canCallTool turn
    env,       \* the collaborators: budgets of what they still may do
    scan,      \* SpecScanner: the session scanner, its files and its passes
    ws,        \* SpecWs: the websocket client of the session
    hook       \* SpecHook: the hook server and the requests it served

vars == <<mq, hist, session, now, ticks, calls, loop, local, remote, requests, turn, env, scan, ws, hook>>

-----------------------------------------------------------------------------
(* Bounds *)

MaxOps == 5
MaxPrompts == 2

-----------------------------------------------------------------------------
(* MessageQueue *)

\* waitForMessage() resolving to null
Null == <<>>
\* a waitForMessage() promise that has not resolved yet
Suspended == <<"suspended">>
\* a QueueMessage carrying prompt text number i
Prompt(i) == <<"prompt", i>>
\* the message the Remote launcher queues to make the assistant resume
ContinueMsg == <<"continue">>

\* new MessageQueue(): waitResolve is 0 for null, else the number of the
\* waitForMessage call whose promise it resolves.  waits[k] is what the
\* k-th waitForMessage call returned; notified counts observer callbacks.
NewQueue ==
    [queue |-> <<>>, waitResolve |-> 0, onMessageCallback |-> FALSE,
     closed |-> FALSE, waits |-> <<>>, notified |-> 0]

\* push that never hands the message to a suspended waiter
pushWithoutHandoff(q, m) ==
    IF q.closed THEN q
    ELSE LET n == IF q.onMessageCallback THEN [q EXCEPT !.notified = @ + 1] ELSE q
         IN  [n EXCEPT !.queue = Append(@, m)]

\* push that calls the observer only for a message that goes to the backlog
pushNotifyBacklogOnly(q, m) ==
    IF q.closed THEN q
    ELSE IF q.waitResolve # 0
         THEN [q EXCEPT !.waitResolve = 0, !.waits[q.waitResolve] = m]
         ELSE LET n == IF q.onMessageCallback THEN [q EXCEPT !.notified = @ + 1] ELSE q
              IN  [n EXCEPT !.queue = Append(@, m)]

push(q, m) ==
    IF q.closed THEN q
    ELSE LET n == IF q.onMessageCallback THEN [q EXCEPT !.notified = @ + 1] ELSE q
         IN  IF n.waitResolve # 0
             THEN [n EXCEPT !.waitResolve = 0, !.waits[n.waitResolve] = m]
             ELSE [n EXCEPT !.queue = Append(@, m)]


\* waitForMessage taking the newest queued message (pop() for shift())
waitForMessageNewest(q) ==
    IF q.closed THEN [q EXCEPT !.waits = Append(@, Null)]
    ELSE IF Len(q.queue) > 0
         THEN [q EXCEPT !.queue = SubSeq(@, 1, Len(@) - 1),
                        !.waits = Append(@, q.queue[Len(q.queue)])]
         ELSE [q EXCEPT !.waitResolve = Len(q.waits) + 1,
                        !.waits = Append(@, Suspended)]

\* waitForMessage that suspends without looking at the backlog
waitForMessageAlwaysSuspends(q) ==
    IF q.closed THEN [q EXCEPT !.waits = Append(@, Null)]
    ELSE [q EXCEPT !.waitResolve = Len(q.waits) + 1,
                   !.waits = Append(@, Suspended)]

waitForMessage(q) ==
    IF q.closed THEN [q EXCEPT !.waits = Append(@, Null)]
    ELSE IF Len(q.queue) > 0
         THEN [q EXCEPT !.queue = Tail(@), !.waits = Append(@, Head(q.queue))]
         ELSE [q EXCEPT !.waitResolve = Len(q.waits) + 1,
                        !.waits = Append(@, Suspended)]

size(q) == Len(q.queue)

\* reset that wakes the waiter but keeps the backlog
resetKeepingBacklog(q) ==
    IF q.waitResolve # 0
    THEN [q EXCEPT !.waitResolve = 0, !.waits[q.waitResolve] = Null]
    ELSE q

reset(q) ==
    IF q.waitResolve # 0
    THEN [q EXCEPT !.queue = <<>>, !.waitResolve = 0, !.waits[q.waitResolve] = Null]
    ELSE [q EXCEPT !.queue = <<>>]

setOnMessage(q, cb) == [q EXCEPT !.onMessageCallback = cb]

\* close that sets the flag and does not reset
closeWithoutReset(q) == [q EXCEPT !.closed = TRUE]

close(q) == reset([q EXCEPT !.closed = TRUE])

-----------------------------------------------------------------------------
(* SpecQueue: one queue, its methods called in any order *)

othersQ == <<scan, ws, hook, session, now, ticks, calls, loop, local, remote, requests, turn, env>>

\* the value of a variable a specification does not use
Unused == [pc |-> "off"]

InitQueue ==
    /\ mq = NewQueue
    /\ hist = <<>>
    /\ session = Unused
    /\ now = 0
    /\ ticks = 0
    /\ calls = <<>>
    /\ loop = Unused
    /\ local = Unused
    /\ remote = Unused
    /\ requests = <<>>
    /\ turn = "idle"
    /\ env = Unused
    /\ scan = Unused
    /\ ws = Unused /\ hook = Unused

QPush(i) ==
    /\ Len(hist) < MaxOps
    /\ mq' = push(mq, Prompt(i))
    /\ hist' = Append(hist, <<"push", i>>)
    /\ UNCHANGED othersQ

QWait ==
    /\ Len(hist) < MaxOps
    /\ mq' = waitForMessage(mq)
    /\ hist' = Append(hist, <<"wait">>)
    /\ UNCHANGED othersQ

QReset ==
    /\ Len(hist) < MaxOps
    /\ mq' = reset(mq)
    /\ hist' = Append(hist, <<"reset">>)
    /\ UNCHANGED othersQ

QSetOnMessage(cb) ==
    /\ Len(hist) < MaxOps
    /\ cb # mq.onMessageCallback
    /\ mq' = setOnMessage(mq, cb)
    /\ hist' = Append(hist, <<"setOnMessage">>)
    /\ UNCHANGED othersQ

QClose ==
    /\ Len(hist) < MaxOps
    /\ mq' = close(mq)
    /\ hist' = Append(hist, <<"close">>)
    /\ UNCHANGED othersQ

NextQueue ==
    \/ \E i \in 1..MaxPrompts : QPush(i)
    \/ QWait
    \/ QReset
    \/ \E cb \in BOOLEAN : QSetOnMessage(cb)
    \/ QClose

SpecQueue == InitQueue /\ [][NextQueue]_vars

-----------------------------------------------------------------------------
(* C10 *)

\* the positions of hist holding a push, in order
RECURSIVE PushedOf(_)
PushedOf(h) ==
    IF h = <<>> THEN <<>>
    ELSE IF Head(h)[1] = "push" THEN <<Prompt(Head(h)[2])>> \o PushedOf(Tail(h))
         ELSE PushedOf(Tail(h))

NumOp(h, op) == Cardinality({k \in 1..Len(h) : h[k][1] = op})

\* hist is N pushes followed by M waits and nothing else
PushesThenWaits(h) ==
    /\ \A k \in 1..Len(h) : h[k][1] \in {"push", "wait"}
    /\ \A j, k \in 1..Len(h) : (j < k /\ h[j][1] = "wait") => h[k][1] = "wait"

\* C10: after N pushes followed by M <= N waits on an open queue with no
\* reset in between, the k-th wait has returned the k-th pushed message and
\* no wait is suspended.
C10_PushOrderIsWaitOrder ==
    (PushesThenWaits(hist) /\ NumOp(hist, "wait") <= NumOp(hist, "push")) =>
        /\ Len(mq.waits) = NumOp(hist, "wait")
        /\ \A k \in 1..Len(mq.waits) : mq.waits[k] = PushedOf(hist)[k]
        /\ mq.waitResolve = 0

\* two different messages were pushed and both were returned, in push order
C10_Witness ==
    /\ PushesThenWaits(hist)
    /\ NumOp(hist, "push") >= 2
    /\ NumOp(hist, "wait") = 2
    /\ PushedOf(hist)[1] # PushedOf(hist)[2]
    /\ mq.waits = <<PushedOf(hist)[1], PushedOf(hist)[2]>>

-----------------------------------------------------------------------------
(* C11 *)

\* hist is N pushes, then M waits, then K pushes, and nothing else
PushesWaitsPushes(h) ==
    /\ \A k \in 1..Len(h) : h[k][1] \in {"push", "wait"}
    /\ \A j, k, l \in 1..Len(h) :
          (j < k /\ k < l /\ h[j][1] = "wait" /\ h[l][1] = "wait") => h[k][1] = "wait"

\* the number of pushes of h before its first wait
PushesBefore(h) ==
    Cardinality({k \in 1..Len(h) :
        h[k][1] = "push" /\ \A j \in 1..k : h[j][1] # "wait"})

\* the number of pushes of h after its first wait
PushesAfter(h) == NumOp(h, "push") - PushesBefore(h)

SuspendedWaits(q) == {k \in 1..Len(q.waits) : q.waits[k] = Suspended}

\* the suspended waits whose resolver a later waitForMessage call replaced
Orphans(q) == SuspendedWaits(q) \ {q.waitResolve}

\* C11 as stated: after N pushes, M > N waits and K later pushes the first N
\* waits hold the first N pushed messages, and min(K, M - N) of the remaining
\* waits are resolved, so none is suspended once K >= M - N.
C11_Original ==
    LET N == PushesBefore(hist)
        M == NumOp(hist, "wait")
        K == PushesAfter(hist)
    IN  (PushesWaitsPushes(hist) /\ M > N) =>
            /\ \A k \in 1..N : mq.waits[k] = PushedOf(hist)[k]
            /\ Cardinality((N+1..M) \ SuspendedWaits(mq))
                  = (IF K < M - N THEN K ELSE M - N)

\* C11 (amended): after N pushes, N + 1 waits and K later pushes the first N
\* waits hold the first N pushed messages in push order; the last wait is
\* suspended while K = 0 and holds the first later push once K >= 1, the
\* other later pushes being queued in order.
C11_OneSuspendedWaitIsResolved ==
    LET N == PushesBefore(hist)
        M == NumOp(hist, "wait")
        K == PushesAfter(hist)
        P == PushedOf(hist)
    IN  (PushesWaitsPushes(hist) /\ M = N + 1) =>
            /\ Len(mq.waits) = M
            /\ \A k \in 1..N : mq.waits[k] = P[k]
            /\ K = 0 => (mq.waits[M] = Suspended /\ mq.waitResolve = M)
            /\ K >= 1 => /\ mq.waits[M] = P[N + 1]
                         /\ mq.waitResolve = 0
                         /\ mq.queue = SubSeq(P, N + 2, N + K)

\* one push, two waits of which the second suspended, and a later push that
\* resolved it
C11_Witness ==
    /\ PushesWaitsPushes(hist)
    /\ PushesBefore(hist) >= 1
    /\ NumOp(hist, "wait") = PushesBefore(hist) + 1
    /\ PushesAfter(hist) >= 1
    /\ mq.waits[Len(mq.waits)] = PushedOf(hist)[PushesBefore(hist) + 1]

-----------------------------------------------------------------------------
(* C12, C13, C14 *)

\* the last method call was op
LastOp(h, op) == Len(h) > 0 /\ h[Len(h)][1] = op

\* the position of the last reset or close of h, 0 if there is none
LastReset(h) ==
    LET R == {k \in 1..Len(h) : h[k][1] \in {"reset", "close"}}
    IN  IF R = {} THEN 0 ELSE CHOOSE k \in R : \A j \in R : j <= k

\* the messages among the values of w, in order
RECURSIVE Returned(_)
Returned(w) ==
    IF w = <<>> THEN <<>>
    ELSE IF Head(w) \in {Null, Suspended} THEN Returned(Tail(w))
         ELSE <<Head(w)>> \o Returned(Tail(w))

C14_ObserverOncePerPush ==
    [][ mq'.notified = mq.notified +
          (IF LastOp(hist', "push") /\ ~mq.closed /\ mq.onMessageCallback
           THEN 1 ELSE 0) ]_vars

\* with an observer registered, one push was handed to a suspended waiter
\* and one was appended to the backlog: two notifications
C14_Witness ==
    /\ Len(hist) = 4
    /\ hist[1][1] = "setOnMessage" /\ hist[2][1] = "wait"
    /\ hist[3][1] = "push" /\ hist[4][1] = "push"
    /\ mq.waits[1] = Prompt(hist[3][2])
    /\ mq.queue = <<Prompt(hist[4][2])>>
    /\ mq.notified = 2

-----------------------------------------------------------------------------
(* Session: the permission relay *)

DefaultMaxAgeMs == 30000

ProtectedTool == "AskUserQuestion"
Tools == {"Bash", "Edit", ProtectedTool}
PermissionResponses == {"yes", "no", "always"}

\* pendingPermissionResponse = null
NoPending == <<>>
\* { response, receivedAt }
Pending(r, t) == <<r, t>>

\* new Session(): a handler field holds the name of the driver whose closure
\* is registered, or "null"; permissionResolver is 0 for null, else the
\* number of the canCallTool invocation whose promise it resolves;
\* claudeSessionId is 0 for null; sessionFoundCallbacks tells whether the
\* Local driver's scannerSessionCallback is registered.
NewSession ==
    [userInputHandler |-> "null", switchHandler |-> "null",
     permissionResponseTriggerSwitch |-> "null",
     permissionResolver |-> 0, pendingPermissionResponse |-> NoPending,
     alwaysAllowedTools |-> {},
     claudeSessionId |-> 0, sessionFoundCallbacks |-> FALSE]

\* a check that reports a parked response whether or not there is one
hasPendingPermissionResponseAlways(s) == TRUE

hasPendingPermissionResponse(s) == s.pendingPermissionResponse # NoPending


\* consumePendingPermissionResponse expiring at the TTL itself (>= for >)
consumePendingExpiringEarly(s, t, maxAgeMs) ==
    LET pending == s.pendingPermissionResponse
        cleared == [s EXCEPT !.pendingPermissionResponse = NoPending]
    IN  IF pending = NoPending THEN [session |-> s, result |-> "null"]
        ELSE IF t - pending[2] >= maxAgeMs THEN [session |-> cleared, result |-> "null"]
        ELSE [session |-> cleared, result |-> pending[1]]

\* returns the session afterwards and the value returned ("null" for null)
consumePendingPermissionResponse(s, t, maxAgeMs) ==
    LET pending == s.pendingPermissionResponse
        cleared == [s EXCEPT !.pendingPermissionResponse = NoPending]
    IN  IF pending = NoPending THEN [session |-> s, result |-> "null"]
        ELSE IF t - pending[2] > maxAgeMs THEN [session |-> cleared, result |-> "null"]
        ELSE [session |-> cleared, result |-> pending[1]]


\* clearPendingPermissionResponse without the maxAgeMs = 0 case
clearPendingByAgeOnly(s, t, maxAgeMs) ==
    IF s.pendingPermissionResponse = NoPending THEN s
    ELSE IF t - s.pendingPermissionResponse[2] > maxAgeMs
         THEN [s EXCEPT !.pendingPermissionResponse = NoPending]
         ELSE s

clearPendingPermissionResponse(s, t, maxAgeMs) ==
    IF s.pendingPermissionResponse = NoPending THEN s
    ELSE IF maxAgeMs = 0 THEN [s EXCEPT !.pendingPermissionResponse = NoPending]
    ELSE IF t - s.pendingPermissionResponse[2] > maxAgeMs
         THEN [s EXCEPT !.pendingPermissionResponse = NoPending]
         ELSE s

isToolAlwaysAllowed(s, toolName) ==
    IF toolName = ProtectedTool THEN FALSE ELSE toolName \in s.alwaysAllowedTools


\* markToolAlwaysAllowed without the AskUserQuestion guard
markToolUnguarded(s, toolName) == [s EXCEPT !.alwaysAllowedTools = @ \cup {toolName}]

markToolAlwaysAllowed(s, toolName) ==
    IF toolName = ProtectedTool THEN s
    ELSE [s EXCEPT !.alwaysAllowedTools = @ \cup {toolName}]

\* the promise executor: the resolver of invocation id is installed
waitForPermissionResponse(s, id) == [s EXCEPT !.permissionResolver = id]

\* handleMessage, case 'permission_response': the session afterwards, the
\* invocation whose promise was resolved (0: none) and the hand-off observer
\* that was called ("null": none)
handlePermissionResponse(s, r, t) ==
    IF s.permissionResolver # 0
    THEN [session |-> [s EXCEPT !.permissionResolver = 0],
          resolved |-> s.permissionResolver, notified |-> "null"]
    ELSE [session |-> [s EXCEPT !.pendingPermissionResponse = Pending(r, t)],
          resolved |-> 0, notified |-> s.permissionResponseTriggerSwitch]

-----------------------------------------------------------------------------
(* SpecSession: one Session, its permission methods called in any order *)

MaxCalls == 5
MaxTicks == 2
TickSteps == {1, DefaultMaxAgeMs}

othersS == <<mq, hist, scan, ws, hook, loop, local, remote, requests, turn, env>>

InitSession ==
    /\ session = NewSession
    /\ now = 0
    /\ ticks = 0
    /\ calls = [n |-> 0, last |-> <<"new">>]
    /\ mq = NewQueue
    /\ hist = <<>>
    /\ loop = Unused
    /\ local = Unused
    /\ remote = Unused
    /\ requests = <<>>
    /\ turn = "idle"
    /\ env = Unused
    /\ scan = Unused
    /\ ws = Unused /\ hook = Unused

Called(c) == calls' = [n |-> calls.n + 1, last |-> c]

STick(d) ==
    /\ ticks < MaxTicks
    /\ now' = now + d
    /\ ticks' = ticks + 1
    /\ UNCHANGED <<session, calls>>
    /\ UNCHANGED othersS

SPermissionResponse(r) ==
    /\ calls.n < MaxCalls
    /\ LET h == handlePermissionResponse(session, r, now)
       IN  /\ session' = h.session
           /\ Called(<<"permission_response", r, h.resolved>>)
    /\ UNCHANGED <<now, ticks>>
    /\ UNCHANGED othersS

SConsume ==
    /\ calls.n < MaxCalls
    /\ LET c == consumePendingPermissionResponse(session, now, DefaultMaxAgeMs)
       IN  /\ session' = c.session
           /\ Called(<<"consume", session.pendingPermissionResponse, c.result, now>>)
    /\ UNCHANGED <<now, ticks>>
    /\ UNCHANGED othersS

SClear(maxAgeMs) ==
    /\ calls.n < MaxCalls
    /\ session' = clearPendingPermissionResponse(session, now, maxAgeMs)
    /\ Called(<<"clear", session.pendingPermissionResponse, maxAgeMs>>)
    /\ UNCHANGED <<now, ticks>>
    /\ UNCHANGED othersS

SWait ==
    /\ calls.n < MaxCalls
    /\ session' = waitForPermissionResponse(session, calls.n + 1)
    /\ Called(<<"wait">>)
    /\ UNCHANGED <<now, ticks>>
    /\ UNCHANGED othersS

SMark(toolName) ==
    /\ calls.n < MaxCalls
    /\ session' = markToolAlwaysAllowed(session, toolName)
    /\ Called(<<"mark", toolName>>)
    /\ UNCHANGED <<now, ticks>>
    /\ UNCHANGED othersS

NextSession ==
    \/ \E d \in TickSteps : STick(d)
    \/ \E r \in PermissionResponses : SPermissionResponse(r)
    \/ SConsume
    \/ \E a \in {0, DefaultMaxAgeMs} : SClear(a)
    \/ SWait
    \/ \E t \in Tools : SMark(t)

SpecSession == InitSession /\ [][NextSession]_vars

-----------------------------------------------------------------------------
(* C7 *)

\* C7: a consume of a parked response returns that response exactly when its
\* age is at most the TTL and nothing otherwise; a consume with nothing
\* parked returns nothing; after every consume nothing is parked.
C7_ConsumeWithinTtl ==
    calls.last[1] = "consume" =>
        LET before == calls.last[2]
            result == calls.last[3]
            age == calls.last[4] - before[2]
        IN  /\ session.pendingPermissionResponse = NoPending
            /\ before = NoPending => result = "null"
            /\ before # NoPending =>
                 /\ (age <= DefaultMaxAgeMs) => result = before[1]
                 /\ (age > DefaultMaxAgeMs) => result = "null"

\* a response parked exactly DefaultMaxAgeMs ago was consumed and returned
C7_Witness ==
    /\ calls.last[1] = "consume"
    /\ calls.last[2] # NoPending
    /\ calls.last[4] - calls.last[2][2] = DefaultMaxAgeMs
    /\ calls.last[3] = calls.last[2][1]

\* a response parked longer ago than the TTL was consumed and dropped
C7_WitnessExpired ==
    /\ calls.last[1] = "consume"
    /\ calls.last[2] # NoPending
    /\ calls.last[4] - calls.last[2][2] > DefaultMaxAgeMs
    /\ calls.last[3] = "null"
    /\ session.pendingPermissionResponse = NoPending

-----------------------------------------------------------------------------
(* Spec: the mode loop, the Local and Remote drivers and their collaborators *)

MaxEvents == 5
SessionIds == {1, 2}

\* no driver invocation is running
LocalOff ==
    [pc |-> "off", exitReason |-> "null", aborted |-> FALSE, child |-> "none",
     spawned |-> FALSE, hookServer |-> FALSE, settingsFile |-> FALSE,
     scanner |-> [currentSessionId |-> 0, watcher |-> FALSE,
                  interval |-> FALSE, syncTimeout |-> FALSE]]

\* startFrom tells whether claudeRemote resumes a prior assistant session,
\* retries counts its fresh-session retries
RemoteOff ==
    [pc |-> "off", exitReason |-> "null", aborted |-> FALSE, keypress |-> FALSE,
     query |-> "none", inv |-> 0, startFrom |-> FALSE, retries |-> 0]

\* loop(): `opts.startingMode ?? 'local'`
startMode(opt) == IF opt = "undefined" THEN "local" ELSE opt

\* loop() before its first iteration.  History: entered counts the driver
\* invocations, modeChanges and modeSends count the calls of onModeChange
\* and of session.sendModeChange, modeChangeLast and modeSendLast are the
\* modes they were last given.
NewLoop(opt) ==
    [pc |-> "top", mode |-> startMode(opt), startingMode |-> startMode(opt),
     entered |-> 0,
     modeChanges |-> 0, modeChangeLast |-> "none",
     modeSends |-> 0, modeSendLast |-> "none"]

Init ==
    /\ mq = NewQueue
    /\ hist = <<>>
    /\ session = NewSession
    /\ now = 0
    /\ ticks = 0
    /\ calls = <<>>
    /\ loop \in {NewLoop(opt) : opt \in {"undefined", "local", "remote"}}
    /\ local = LocalOff
    /\ remote = RemoteOff
    /\ requests = <<>>
    /\ turn = "idle"
    /\ env = [events |-> 0, prompts |-> 0, responses |-> 0, arrived |-> <<>>]
    /\ scan = Unused
    /\ ws = Unused /\ hook = Unused

\* a macrotask may run: no canCallTool turn and no loop continuation is running
Ready == turn = "idle" /\ loop.pc \in {"local", "remote"}

\* the collaborators (cloud, keyboard, assistant) may still act
MayAct == Ready /\ env.events < MaxEvents
Acted == [env EXCEPT !.events = @ + 1]

-----------------------------------------------------------------------------
(* scanner (the transcript synchronizer), as far as its watcher and timers go *)

scheduleSync(sc) == [sc EXCEPT !.syncTimeout = TRUE]

\* onNewSession that retargets without scheduling a sync
onNewSessionWithoutSync(sc, sessionId) ==
    IF sessionId = sc.currentSessionId THEN sc
    ELSE [sc EXCEPT !.currentSessionId = sessionId, !.watcher = TRUE]

onNewSession(sc, sessionId) ==
    IF sessionId = sc.currentSessionId THEN sc
    ELSE scheduleSync([sc EXCEPT !.currentSessionId = sessionId, !.watcher = TRUE])

\* cleanup() up to its await of watcher.close()
cleanupScanner(sc) == [sc EXCEPT !.interval = FALSE, !.syncTimeout = FALSE, !.watcher = FALSE]

\* Session.setClaudeSessionId in the Local driver: the registered
\* scannerSessionCallback forwards the id to the scanner
setClaudeSessionId(s, sessionId) == [s EXCEPT !.claudeSessionId = sessionId]

-----------------------------------------------------------------------------
(* Local driver *)

\* a loop that re-enters the mode it was in
loopAfterSameMode(reason) ==
    IF reason = "exit" THEN [loop EXCEPT !.pc = "done"]
    ELSE [loop EXCEPT !.pc = "top"]

\* the loop's continuation after a driver returned reason
loopAfter(reason) ==
    IF reason = "exit" THEN [loop EXCEPT !.pc = "done"]
    ELSE [loop EXCEPT !.pc = "top",
                      !.mode = IF loop.mode = "local" THEN "remote" ELSE "local"]

\* the session after the finally block unregistered the Local driver's handlers
localUnregister(s) ==
    [s EXCEPT !.userInputHandler = "null", !.switchHandler = "null",
              !.permissionResponseTriggerSwitch = "null",
              !.sessionFoundCallbacks = FALSE]

\* a finally block reached while the subprocess is still running
LocalFinallyLeavingChild(l, reason) ==
    LET sc == cleanupScanner(l.scanner)
    IN  /\ session' = localUnregister(session)
        /\ IF l.scanner.watcher
           THEN /\ local' = [l EXCEPT !.pc = "cleanup", !.exitReason = reason, !.scanner = sc,
                                      !.child = "running"]
                /\ loop' = loop
           ELSE /\ local' = [l EXCEPT !.pc = "off", !.exitReason = reason, !.scanner = sc,
                                      !.hookServer = FALSE, !.settingsFile = FALSE,
                                      !.child = "running"]
                /\ loop' = loopAfter(reason)

\* finally block of claudeLocalLauncher up to `await scanner.cleanup()`; the
\* await suspends the driver only when there is a watcher to close
LocalFinally(l, reason) ==
    LET sc == cleanupScanner(l.scanner)
    IN  /\ session' = localUnregister(session)
        /\ IF l.scanner.watcher
           THEN /\ local' = [l EXCEPT !.pc = "cleanup", !.exitReason = reason, !.scanner = sc]
                /\ loop' = loop
           ELSE /\ local' = [l EXCEPT !.pc = "off", !.exitReason = reason, !.scanner = sc,
                                      !.hookServer = FALSE, !.settingsFile = FALSE]
                /\ loop' = loopAfter(reason)

\* doSwitch that decides 'switch' but does not abort the subprocess
doSwitchWithoutAbort(l) == [l EXCEPT !.exitReason = IF @ = "null" THEN "switch" ELSE @]

\* doSwitch() of the Local driver: decide 'switch' and abort the subprocess
doSwitch(l) ==
    [l EXCEPT !.exitReason = IF @ = "null" THEN "switch" ELSE @,
              !.aborted = TRUE,
              !.child = IF @ = "running" /\ ~l.aborted THEN "signalled" ELSE @]

\* startHookServer resolved: settings file, then createSessionScanner is awaited
LocalHookServerListening ==
    /\ Ready /\ local.pc = "startHookServer"
    /\ local' = [local EXCEPT !.pc = "createScanner", !.hookServer = TRUE,
                              !.settingsFile = TRUE]
    /\ UNCHANGED <<mq, hist, scan, ws, hook, session, now, ticks, calls, loop, remote, requests, turn, env>>

\* a driver entry that never looks at the queue and always spawns
LocalScannerCreatedIgnoringQueue ==
    /\ Ready /\ local.pc = "createScanner"
    /\ LET sid == session.claudeSessionId
           l == [local EXCEPT !.scanner = [currentSessionId |-> sid, watcher |-> sid # 0,
                                           interval |-> TRUE, syncTimeout |-> FALSE]]
       IN  /\ local' = [l EXCEPT !.pc = "claudeLocal", !.child = "running",
                                 !.spawned = TRUE]
           /\ session' = [session EXCEPT !.userInputHandler = "local",
                                         !.switchHandler = "local",
                                         !.permissionResponseTriggerSwitch = "local",
                                         !.sessionFoundCallbacks = TRUE]
           /\ loop' = loop
    /\ UNCHANGED <<mq, hist, scan, ws, hook, now, ticks, calls, remote, requests, turn, env>>

\* createSessionScanner resolved: handlers registered, then either the early
\* return on a non-empty queue or the first spawn
LocalScannerCreated ==
    /\ Ready /\ local.pc = "createScanner"
    /\ LET sid == session.claudeSessionId
           l == [local EXCEPT !.scanner = [currentSessionId |-> sid, watcher |-> sid # 0,
                                           interval |-> TRUE, syncTimeout |-> FALSE]]
       IN  IF size(mq) > 0
           THEN LocalFinally(l, "switch")
           ELSE /\ local' = [l EXCEPT !.pc = "claudeLocal", !.child = "running",
                                      !.spawned = TRUE]
                /\ session' = [session EXCEPT !.userInputHandler = "local",
                                              !.switchHandler = "local",
                                              !.permissionResponseTriggerSwitch = "local",
                                              !.sessionFoundCallbacks = TRUE]
                /\ loop' = loop
    /\ UNCHANGED <<mq, hist, scan, ws, hook, now, ticks, calls, remote, requests, turn, env>>

\* the subprocess exits: how is "exit" (it ended by itself with code 0),
\* "nonzero" (it ended by itself with another code; the exit handler does not
\* look at the code), "sigterm" (the abort signal killed it) or "signal"
\* (killed otherwise)
ChildExit(how) ==
    /\ Ready /\ local.pc = "claudeLocal"
    /\ how = "sigterm" <=> local.child = "signalled"
    /\ how # "sigterm" => env.events < MaxEvents
    /\ env' = IF how = "sigterm" THEN env ELSE Acted
    /\ LET l == [local EXCEPT !.child = "none"]
       IN  IF how = "signal"
           THEN IF local.exitReason = "null"
                THEN \* catch: retry, the loop spawns again
                     /\ local' = [l EXCEPT !.child = "running"]
                     /\ UNCHANGED <<session, loop>>
                ELSE LocalFinally(l, local.exitReason)
           ELSE LocalFinally(l, IF local.exitReason = "null" THEN "exit"
                                ELSE local.exitReason)
    /\ UNCHANGED <<mq, hist, scan, ws, hook, now, ticks, calls, remote, requests, turn>>

\* scanner.cleanup() resolved: hook server stopped, settings file removed,
\* the driver returns
LocalCleanupDone ==
    /\ Ready /\ local.pc = "cleanup"
    /\ local' = [local EXCEPT !.pc = "off", !.hookServer = FALSE, !.settingsFile = FALSE]
    /\ loop' = loopAfter(local.exitReason)
    /\ UNCHANGED <<mq, hist, scan, ws, hook, session, now, ticks, calls, remote, requests, turn, env>>

\* POST /hook with a SessionStart event of session sessionId, sent by a hook
\* command of the subprocess this invocation spawned
HookSessionStart(sessionId) ==
    /\ MayAct /\ local.hookServer /\ local.spawned
    /\ env' = Acted
    /\ session' = setClaudeSessionId(session, sessionId)
    /\ local' = [local EXCEPT !.scanner = onNewSession(@, sessionId)]
    /\ UNCHANGED <<mq, hist, scan, ws, hook, now, ticks, calls, loop, remote, requests, turn>>

\* the scanner's 3 s interval fires: scheduleSync
ScannerInterval ==
    /\ MayAct /\ local.scanner.interval
    /\ env' = Acted
    /\ local' = [local EXCEPT !.scanner = scheduleSync(@)]
    /\ UNCHANGED <<mq, hist, scan, ws, hook, session, now, ticks, calls, loop, remote, requests, turn>>

\* the scanner's debounce timer fires: a sync pass runs
ScannerTimeout ==
    /\ Ready /\ local.scanner.syncTimeout
    /\ local' = [local EXCEPT !.scanner.syncTimeout = FALSE]
    /\ UNCHANGED <<mq, hist, scan, ws, hook, session, now, ticks, calls, loop, remote, requests, turn, env>>

-----------------------------------------------------------------------------
(* Remote driver *)

\* query(): the assistant behind the message stream yields messages and asks
\* canCallTool only while it runs and is not aborted, one question at a time
QueryActive(r) == r.pc = "streaming" /\ r.query = "running"

\* query(): the stream can end while the driver consumes it or waits in
\* canCallTool; after the abort signal that is all it does
QueryCanEnd(r) == r.pc \in {"streaming", "permission"} /\ r.query \in {"running", "aborted"}

LastWait(q) == q.waits[Len(q.waits)]

\* finally block of claudeRemoteLauncher and its return to the loop
RemoteReturn(r, s, reason) ==
    /\ remote' = [r EXCEPT !.pc = "off", !.keypress = FALSE, !.exitReason = reason]
    /\ session' = [s EXCEPT !.switchHandler = "null"]
    /\ loop' = loopAfter(reason)

\* claudeRemote after nextMessage() returned what the queue's last wait
\* returned: null ends the driver, a message starts or feeds the query
RemoteAfterNextMessage(r, s, q) ==
    IF LastWait(q) = Null
    THEN RemoteReturn([r EXCEPT !.query = IF @ = "none" THEN "none" ELSE "ended"], s,
                      IF r.exitReason = "null" THEN "exit" ELSE r.exitReason)
    ELSE /\ remote' = IF LastWait(q) = Suspended
                      THEN [r EXCEPT !.pc = "nextMessage"]
                      ELSE [r EXCEPT !.pc = "streaming",
                                     !.query = IF @ = "none" THEN "running" ELSE @]
         /\ session' = s
         /\ loop' = loop

\* a handler that decides the exit reason but leaves the abort signal alone
remoteAbortReasonOnly(r, reason) ==
    [r EXCEPT !.exitReason = IF @ = "null" THEN reason ELSE @]

\* a handler in which the latest request decides the exit reason
remoteAbortLastWins(r, reason) ==
    [r EXCEPT !.exitReason = reason,
              !.aborted = TRUE,
              !.query = IF @ = "running" THEN "aborted" ELSE @]

\* the body of keypressHandler and of the onSwitch handler: decide the exit
\* reason, reset the queue, abort
remoteAbort(r, reason) ==
    [r EXCEPT !.exitReason = IF @ = "null" THEN reason ELSE @,
              !.aborted = TRUE,
              !.query = IF @ = "running" THEN "aborted" ELSE @]

\* a handler of the Remote driver asked for reason: the reset wakes a
\* suspended nextMessage with null, which ends the driver in the same turn
RemoteInterrupt(reason) ==
    LET r == remoteAbort(remote, reason)
    IN  /\ mq' = reset(mq)
        /\ IF mq.waitResolve # 0
           THEN RemoteReturn([r EXCEPT !.query = IF @ = "none" THEN "none" ELSE "ended"],
                             session, r.exitReason)
           ELSE /\ remote' = r
                /\ UNCHANGED <<session, loop>>

\* claudeRemote's startFrom: the known assistant session id, dropped when
\* claudeCheckSession finds no transcript file for it
StartFromChoices(s) == IF s.claudeSessionId # 0 THEN BOOLEAN ELSE {FALSE}

\* a catch block that starts a fresh session after every failure
retriesFreshAlways(r) == r.startFrom /\ ~r.aborted

\* the catch block of claudeRemote: the failure of the first runQuery is
\* answered by a fresh runQuery if a resume was attempted and no abort is set
retriesFresh(r) == r.retries = 0 /\ r.startFrom /\ ~r.aborted

\* an iteration that tells the observer but not the collaborator
announceObserverOnly(lp) ==
    [lp EXCEPT !.pc = "announced",
               !.modeChanges = @ + 1, !.modeChangeLast = lp.mode]

\* top of an iteration of loop(): opts.onModeChange(mode), then
\* opts.session.sendModeChange(mode)
announce(lp) ==
    [lp EXCEPT !.pc = "announced",
               !.modeChanges = @ + 1, !.modeChangeLast = lp.mode,
               !.modeSends = @ + 1, !.modeSendLast = lp.mode]

\* the loop announces the mode of the iteration
LoopAnnounce ==
    /\ turn = "idle" /\ loop.pc = "top"
    /\ loop' = announce(loop)
    /\ UNCHANGED <<mq, hist, scan, ws, hook, session, now, ticks, calls, local, remote, requests, turn, env>>

\* the loop enters the driver of the announced mode, which runs up to its
\* first suspension
LoopTop ==
    /\ turn = "idle" /\ loop.pc = "announced"
    /\ IF loop.mode = "local"
       THEN /\ local' = [LocalOff EXCEPT !.pc = "startHookServer"]
            /\ loop' = [loop EXCEPT !.pc = "local", !.entered = @ + 1]
            /\ UNCHANGED <<mq, session, remote>>
       ELSE \E sf \in StartFromChoices(session) :
            LET q1 == IF hasPendingPermissionResponse(session) /\ size(mq) = 0
                      THEN push(mq, ContinueMsg) ELSE mq
                q2 == waitForMessage(q1)
                r == [RemoteOff EXCEPT !.keypress = TRUE, !.inv = loop.entered + 1,
                                       !.startFrom = sf]
                s == [session EXCEPT !.switchHandler = "remote"]
            IN  /\ mq' = q2
                /\ IF LastWait(q2) = Null
                   THEN /\ remote' = [r EXCEPT !.pc = "off", !.keypress = FALSE,
                                               !.exitReason = "exit"]
                        /\ session' = session
                        /\ loop' = [loop EXCEPT !.pc = "done", !.entered = @ + 1]
                   ELSE /\ remote' = IF LastWait(q2) = Suspended
                                     THEN [r EXCEPT !.pc = "nextMessage"]
                                     ELSE [r EXCEPT !.pc = "streaming", !.query = "running"]
                        /\ session' = s
                        /\ loop' = [loop EXCEPT !.pc = "remote", !.entered = @ + 1]
                /\ local' = local
    /\ UNCHANGED <<hist, scan, ws, hook, now, ticks, calls, requests, turn, env>>

\* Enter, Escape or 'q' ("switch") or Ctrl+C ("exit") on the keyboard
Keypress(reason) ==
    /\ MayAct /\ remote.keypress
    /\ env' = Acted
    /\ RemoteInterrupt(reason)
    /\ UNCHANGED <<hist, scan, ws, hook, now, ticks, calls, local, requests, turn>>

\* the query yields a result message: the driver asks for the next message
SdkResult ==
    /\ MayAct /\ QueryActive(remote)
    /\ env' = Acted
    /\ mq' = waitForMessage(mq)
    /\ RemoteAfterNextMessage(remote, session, mq')
    /\ UNCHANGED <<hist, scan, ws, hook, now, ticks, calls, local, requests, turn>>

\* the query yields a system/init message carrying the assistant session id
SdkInit(sessionId) ==
    /\ MayAct /\ QueryActive(remote)
    /\ session.claudeSessionId # sessionId
    /\ env' = Acted
    /\ session' = setClaudeSessionId(session, sessionId)
    /\ UNCHANGED <<mq, hist, scan, ws, hook, now, ticks, calls, loop, local, remote, requests, turn>>

\* the query's stream ends: by the abort, or because the assistant ended
SdkStreamEnds ==
    /\ Ready /\ QueryCanEnd(remote)
    /\ remote.query = "running" => env.events < MaxEvents
    /\ env' = IF remote.query = "running" THEN Acted ELSE env
    /\ RemoteReturn([remote EXCEPT !.query = "ended"], session,
                    IF remote.exitReason = "null" THEN "exit" ELSE remote.exitReason)
    /\ UNCHANGED <<mq, hist, scan, ws, hook, now, ticks, calls, local, requests, turn>>

\* the query's stream throws: the assistant failed, or the abort ended it
\* with an error; claudeRemote catches it
SdkThrows ==
    /\ Ready /\ QueryCanEnd(remote)
    /\ remote.query = "running" => env.events < MaxEvents
    /\ env' = IF remote.query = "running" THEN Acted ELSE env
    /\ IF retriesFresh(remote)
       THEN /\ remote' = [remote EXCEPT !.retries = @ + 1, !.pc = "streaming",
                                        !.query = "running"]
            /\ UNCHANGED <<session, loop>>
       ELSE RemoteReturn([remote EXCEPT !.query = "ended"], session,
                         IF remote.exitReason = "null" THEN "exit" ELSE remote.exitReason)
    /\ UNCHANGED <<mq, hist, scan, ws, hook, now, ticks, calls, local, requests, turn>>

-----------------------------------------------------------------------------
(* Session.handleMessage: frames from the cloud collaborator *)

\* case 'user_input' with the prompt number env.prompts + 1
WsUserInput ==
    /\ MayAct
    /\ env' = [Acted EXCEPT !.prompts = @ + 1,
                            !.arrived = Append(@, [mode |-> loop.mode,
                                                   exiting |-> local.exitReason = "exit",
                                                   empty |-> size(mq) = 0])]
    /\ mq' = push(mq, Prompt(env.prompts + 1))
    /\ local' = IF session.userInputHandler = "local" THEN doSwitch(local) ELSE local
    /\ IF mq.waitResolve # 0 /\ remote.pc = "nextMessage"
       THEN RemoteAfterNextMessage(remote, session, mq')
       ELSE UNCHANGED <<remote, session, loop>>
    /\ UNCHANGED <<hist, scan, ws, hook, now, ticks, calls, requests, turn>>

\* case 'switch'
WsSwitch ==
    /\ MayAct
    /\ env' = Acted
    /\ IF session.switchHandler = "remote"
       THEN /\ RemoteInterrupt("switch")
            /\ local' = local
       ELSE /\ local' = IF session.switchHandler = "local" THEN doSwitch(local) ELSE local
            /\ UNCHANGED <<mq, remote, session, loop>>
    /\ UNCHANGED <<hist, scan, ws, hook, now, ticks, calls, requests, turn>>

\* case 'permission_response': the resolver's continuation is the rest of
\* waitForPermission (remember 'always') and canCallTool's return to the query
WsPermissionResponse(resp) ==
    /\ MayAct
    /\ env' = [Acted EXCEPT !.responses = @ + 1]
    /\ LET h == handlePermissionResponse(session, resp, now)
           i == h.resolved
       IN  IF i # 0
           THEN /\ session' = IF resp = "always"
                              THEN markToolAlwaysAllowed(h.session, requests[i].tool)
                              ELSE h.session
                /\ requests' = [requests EXCEPT ![i].answer = resp, ![i].src = "response",
                                                ![i].answeredBy = env.responses + 1]
                /\ remote' = IF remote.pc = "permission" /\ remote.inv = requests[i].inv
                             THEN [remote EXCEPT !.pc = "streaming"] ELSE remote
                /\ local' = local
           ELSE /\ session' = h.session
                /\ local' = IF h.notified = "local" THEN doSwitch(local) ELSE local
                /\ UNCHANGED <<requests, remote>>
    /\ UNCHANGED <<mq, hist, scan, ws, hook, now, ticks, calls, loop, turn>>

\* time passes: more than the time-to-live of a parked response
Tick ==
    /\ MayAct
    /\ env' = Acted
    /\ now' = now + DefaultMaxAgeMs + 1
    /\ ticks' = ticks + 1
    /\ UNCHANGED <<mq, hist, scan, ws, hook, session, calls, loop, local, remote, requests, turn>>

-----------------------------------------------------------------------------
(* canCallTool: onPermissionRequest, then waitForPermission, statement by     *)
(* statement.  The invocation being served is the last entry of requests.    *)

Cur == Len(requests)
CurTool == requests[Cur].tool

othersT == <<hist, scan, ws, hook, now, ticks, calls, loop, local>>

\* the query asks whether toolName may run.  The entry records the
\* invocation: its driver, how many responses had arrived when it was issued,
\* the state it found, and what the statements below did for it.
SdkCanCallTool(toolName) ==
    /\ MayAct /\ QueryActive(remote)
    /\ env' = Acted
    /\ requests' = Append(requests,
          [tool |-> toolName, inv |-> remote.inv, issuedAfter |-> env.responses,
           allowedAtIssue |-> isToolAlwaysAllowed(session, toolName),
           discarded |-> NoPending, eventSent |-> FALSE,
           answer |-> "none", src |-> "none", answeredBy |-> 0])
    /\ turn' = "onPermissionRequest"
    /\ UNCHANGED <<mq, session, remote>>
    /\ UNCHANGED othersT

\* onPermissionRequest: return at once for an always-allowed tool
OnPermissionRequest ==
    /\ turn = "onPermissionRequest"
    /\ turn' = IF isToolAlwaysAllowed(session, CurTool) THEN "waitForPermission"
               ELSE "clearPending"
    /\ UNCHANGED <<mq, session, remote, requests>>
    /\ UNCHANGED <<env, othersT>>


\* onPermissionRequest clearing with the default maximum age (stale ones only)
OnPermissionRequestClearStale ==
    /\ turn = "clearPending"
    /\ session' = clearPendingPermissionResponse(session, now, DefaultMaxAgeMs)
    /\ requests' = [requests EXCEPT ![Cur].discarded =
                       IF session'.pendingPermissionResponse = NoPending
                       THEN session.pendingPermissionResponse ELSE NoPending]
    /\ turn' = IF CurTool = ProtectedTool THEN "resetQueue" ELSE "sendEvent"
    /\ UNCHANGED <<mq, remote>>
    /\ UNCHANGED <<env, othersT>>

\* session.clearPendingPermissionResponse(0)
OnPermissionRequestClear ==
    /\ turn = "clearPending"
    /\ session' = clearPendingPermissionResponse(session, now, 0)
    /\ requests' = [requests EXCEPT ![Cur].discarded =
                       IF session'.pendingPermissionResponse = NoPending
                       THEN session.pendingPermissionResponse ELSE NoPending]
    /\ turn' = IF CurTool = ProtectedTool THEN "resetQueue" ELSE "sendEvent"
    /\ UNCHANGED <<mq, remote>>
    /\ UNCHANGED <<env, othersT>>

\* session.queue.reset() for AskUserQuestion
OnPermissionRequestReset ==
    /\ turn = "resetQueue"
    /\ mq' = reset(mq)
    /\ turn' = "sendEvent"
    /\ UNCHANGED <<session, remote, requests>>
    /\ UNCHANGED <<env, othersT>>

\* session.sendClaudeEvent(permissionEvent)
OnPermissionRequestSend ==
    /\ turn = "sendEvent"
    /\ requests' = [requests EXCEPT ![Cur].eventSent = TRUE]
    /\ turn' = "waitForPermission"
    /\ UNCHANGED <<mq, session, remote>>
    /\ UNCHANGED <<env, othersT>>


\* waitForPermission without the always-allowed shortcut
WaitForPermissionUncached ==
    /\ turn = "waitForPermission"
    /\ requests' = requests
    /\ turn' = "consumePending"
    /\ UNCHANGED <<mq, session, remote>>
    /\ UNCHANGED <<env, othersT>>

\* waitForPermission: 'always' at once for an always-allowed tool
WaitForPermission ==
    /\ turn = "waitForPermission"
    /\ IF isToolAlwaysAllowed(session, CurTool)
       THEN /\ requests' = [requests EXCEPT ![Cur].answer = "always", ![Cur].src = "cached"]
            /\ turn' = "idle"
       ELSE /\ requests' = requests
            /\ turn' = "consumePending"
    /\ UNCHANGED <<mq, session, remote>>
    /\ UNCHANGED <<env, othersT>>

\* session.consumePendingPermissionResponse(): a parked response answers
WaitForPermissionConsume ==
    /\ turn = "consumePending"
    /\ LET c == consumePendingPermissionResponse(session, now, DefaultMaxAgeMs)
       IN  IF c.result # "null"
           THEN /\ session' = IF c.result = "always"
                              THEN markToolAlwaysAllowed(c.session, CurTool)
                              ELSE c.session
                /\ requests' = [requests EXCEPT ![Cur].answer = c.result,
                                                ![Cur].src = "parked"]
                /\ turn' = "idle"
           ELSE /\ session' = c.session
                /\ requests' = requests
                /\ turn' = "awaitResponse"
    /\ UNCHANGED <<mq, remote>>
    /\ UNCHANGED <<env, othersT>>

\* await session.waitForPermissionResponse(): the resolver is installed and
\* the turn ends with the query waiting for the answer
WaitForPermissionAwait ==
    /\ turn = "awaitResponse"
    /\ session' = waitForPermissionResponse(session, Cur)
    /\ requests' = [requests EXCEPT ![Cur].answer = "waiting"]
    /\ remote' = [remote EXCEPT !.pc = "permission"]
    /\ turn' = "idle"
    /\ UNCHANGED mq
    /\ UNCHANGED <<env, othersT>>

-----------------------------------------------------------------------------

Next ==
    \/ LoopAnnounce
    \/ LoopTop
    \/ LocalHookServerListening
    \/ LocalScannerCreated
    \/ \E how \in {"exit", "nonzero", "sigterm", "signal"} : ChildExit(how)
    \/ LocalCleanupDone
    \/ \E sid \in SessionIds : HookSessionStart(sid)
    \/ ScannerInterval
    \/ ScannerTimeout
    \/ \E reason \in {"switch", "exit"} : Keypress(reason)
    \/ SdkResult
    \/ \E sid \in SessionIds : SdkInit(sid)
    \/ SdkStreamEnds
    \/ SdkThrows
    \/ WsUserInput
    \/ WsSwitch
    \/ \E resp \in PermissionResponses : WsPermissionResponse(resp)
    \/ Tick
    \/ \E t \in Tools : SdkCanCallTool(t)
    \/ OnPermissionRequest
    \/ OnPermissionRequestClear
    \/ OnPermissionRequestReset
    \/ OnPermissionRequestSend
    \/ WaitForPermission
    \/ WaitForPermissionConsume
    \/ WaitForPermissionAwait

Spec == Init /\ [][Next]_vars

-----------------------------------------------------------------------------
(* Claims checked under Spec *)

\* how many waitForMessage calls returned m
Delivered(m) == Cardinality({k \in 1..Len(mq.waits) : mq.waits[k] = m})
InQueue(m) == \E k \in 1..Len(mq.queue) : mq.queue[k] = m
ArrivedInLocal(i) == i \in 1..Len(env.arrived) /\ env.arrived[i].mode = "local"

\* C1 as stated (its finite part): a user_input that arrived with the loop in
\* Local mode is returned by exactly one waitForMessage call; until then it
\* stays queued and the loop does not end.
C1_Original ==
    \A i \in 1..Len(env.arrived) :
        ArrivedInLocal(i) =>
            \/ Delivered(Prompt(i)) = 1
            \/ Delivered(Prompt(i)) = 0 /\ InQueue(Prompt(i)) /\ loop.pc # "done"

\* C2 as stated: at most one driver is active, and while one is active the
\* other one's subprocess, handlers, watcher, timers and hook receiver are gone.
C2_Original ==
    /\ ~(local.pc # "off" /\ remote.pc # "off")
    /\ remote.pc # "off" =>
         /\ local.child = "none"
         /\ session.userInputHandler # "local"
         /\ session.switchHandler # "local"
         /\ session.permissionResponseTriggerSwitch # "local"
         /\ ~session.sessionFoundCallbacks
         /\ ~local.scanner.watcher
         /\ ~local.scanner.interval
         /\ ~local.scanner.syncTimeout
         /\ ~local.hookServer
    /\ local.pc # "off" =>
         /\ remote.query \in {"none", "aborted", "ended"}
         /\ ~remote.keypress
         /\ session.switchHandler # "remote"

\* C3: no request is answered by a parked response, and every answer that is
\* not the always-allowed shortcut is a response that arrived after the
\* request was issued.
C3_NoStaleAnswer ==
    \A i \in 1..Len(requests) :
        /\ requests[i].src # "parked"
        /\ requests[i].src = "response" => requests[i].answeredBy > requests[i].issuedAfter
        /\ (requests[i].answer \notin {"none", "waiting"} /\ ~requests[i].allowedAtIssue)
              => requests[i].src = "response"

\* C4: once clearPendingPermissionResponse(0) has run for a request nothing is
\* parked: not when the permission-request event is sent, not when the wait
\* begins.
C4_ClearedBeforeSendAndWait ==
    /\ turn \in {"resetQueue", "sendEvent", "consumePending", "awaitResponse"}
          => session.pendingPermissionResponse = NoPending
    /\ (turn = "waitForPermission" /\ requests[Cur].eventSent)
          => session.pendingPermissionResponse = NoPending
    /\ \A i \in 1..Len(requests) :
          requests[i].answer = "waiting" => requests[i].eventSent

\* C5 as stated: a permission_response arriving while the Local driver runs
\* is parked with its receipt time and the driver decides to switch.
C5_Original ==
    [][(env'.responses # env.responses /\ local.pc = "claudeLocal") =>
         /\ session'.pendingPermissionResponse # NoPending
         /\ session'.pendingPermissionResponse[2] = now
         /\ local'.exitReason # "null"]_vars

Waiting == {i \in 1..Len(requests) : requests[i].answer = "waiting"}

\* C6 as stated: at most one wait is unresolved, and the resolver in the
\* session is the one of that wait.
C6_Original ==
    /\ Cardinality(Waiting) <= 1
    /\ \A i \in Waiting : session.permissionResolver = i

\* C8: the protected tool is never always-allowed, and every finished
\* canCallTool for it sent a permission request and waited for a response.
C8_ProtectedNeverAllowed ==
    /\ ProtectedTool \notin session.alwaysAllowedTools
    /\ ~isToolAlwaysAllowed(session, ProtectedTool)
    /\ \A i \in 1..Len(requests) :
          (requests[i].tool = ProtectedTool /\ requests[i].answer # "none") =>
              /\ requests[i].eventSent
              /\ requests[i].src \in {"none", "response"}

\* C9: after an 'always' response answered a request for a non-protected
\* tool, a later request for that tool is answered 'always' from the cache:
\* no event, no wait, and its turn leaves the session and the queue alone.
C9_AlwaysIsCached ==
    /\ [](\A i, j \in 1..Len(requests) :
            ( /\ requests[i].tool = requests[j].tool
              /\ requests[i].tool # ProtectedTool
              /\ requests[i].src = "response" /\ requests[i].answer = "always"
              /\ requests[i].answeredBy <= requests[j].issuedAfter ) =>
                /\ requests[j].allowedAtIssue
                /\ ~requests[j].eventSent
                /\ requests[j].discarded = NoPending
                /\ requests[j].answer \in {"none", "always"}
                /\ requests[j].src \in {"none", "cached"})
    /\ [][(turn # "idle" /\ requests[Cur].allowedAtIssue) =>
             (session' = session /\ mq' = mq /\ turn' \in {"waitForPermission", "idle"})]_vars

\* The event loop runs every continuation that is ready, and a subprocess
\* that was sent SIGTERM exits.
Fairness ==
    /\ WF_vars(LoopAnnounce)
    /\ WF_vars(LoopTop)
    /\ WF_vars(LocalHookServerListening)
    /\ WF_vars(LocalScannerCreated)
    /\ WF_vars(ChildExit("sigterm"))
    /\ WF_vars(LocalCleanupDone)
    /\ WF_vars(SdkStreamEnds /\ remote.query = "aborted")

FairSpec == Spec /\ Fairness

\* prompt i arrived with the loop in Local mode, the queue empty and the
\* Local driver not having decided to exit
CleanArrival(i) ==
    /\ ArrivedInLocal(i)
    /\ env.arrived[i].empty
    /\ ~env.arrived[i].exiting

\* C1 (amended): a user_input that arrives in Local mode while the queue is
\* empty and no exit is decided stays queued until a waitForMessage call
\* (only the Remote driver makes them) returns it, which eventually happens,
\* and happens once.
C1_CleanArrivalDeliveredOnce ==
    /\ [](\A i \in 1..Len(env.arrived) :
            CleanArrival(i) =>
                \/ Delivered(Prompt(i)) = 1
                \/ Delivered(Prompt(i)) = 0 /\ InQueue(Prompt(i)) /\ loop.pc # "done")
    /\ \A i \in 1..MaxEvents :
          CleanArrival(i) ~> (Delivered(Prompt(i)) = 1)

-----------------------------------------------------------------------------
(* Witnesses *)

\* a prompt arrived in Local mode on an empty queue and the Remote driver
\* that the loop entered next took it
C1_Witness ==
    \E i \in 1..Len(env.arrived) :
        /\ CleanArrival(i)
        /\ Delivered(Prompt(i)) = 1
        /\ loop.mode = "remote" /\ remote.pc = "streaming"

\* a response was parked before a request was issued, the request discarded
\* it and was answered by a response that arrived later
C3_Witness ==
    \E i \in 1..Len(requests) :
        /\ requests[i].discarded # NoPending
        /\ requests[i].src = "response"
        /\ requests[i].answeredBy > requests[i].issuedAfter

\* the event of a request is about to be sent after a response parked 0 ms
\* earlier was discarded
C4_Witness ==
    /\ turn = "sendEvent"
    /\ requests[Cur].discarded # NoPending
    /\ requests[Cur].discarded[2] = now
    /\ session.pendingPermissionResponse = NoPending

\* 'always' answered a request for the protected tool, and the next request
\* for it sent its event and waits
C8_Witness ==
    \E i, j \in 1..Len(requests) :
        /\ i < j
        /\ requests[i].tool = ProtectedTool /\ requests[j].tool = ProtectedTool
        /\ requests[i].answer = "always" /\ requests[i].src = "response"
        /\ requests[j].eventSent /\ requests[j].answer = "waiting"
        /\ session.permissionResolver = j

\* 'always' answered a request for a tool, and the next request for it was
\* answered from the cache while a response was parked
C9_Witness ==
    \E i, j \in 1..Len(requests) :
        /\ i < j
        /\ requests[i].tool = requests[j].tool
        /\ requests[i].answer = "always" /\ requests[i].src = "response"
        /\ requests[j].answer = "always" /\ requests[j].src = "cached"
        /\ ~requests[j].eventSent
        /\ session.pendingPermissionResponse # NoPending

-----------------------------------------------------------------------------
(* SpecScanner: one session scanner (the transcript synchronizer), the       *)
(* transcript files it reads and its sync passes                             *)

MaxScanEvents == 4
MaxFileLen == 2
MaxPasses == 2

\* a validated transcript line (RawJSONLines); uuid holds leafUuid and
\* summary the summary text for a summary line
Entry(type, uuid, summary) == [type |-> type, uuid |-> uuid, summary |-> summary]

\* the lines the assistant may write: a user message, an assistant message
\* and a summary whose leaf is the assistant message
EntryPool == {Entry("user", 1, ""), Entry("assistant", 2, ""), Entry("summary", 2, "s")}

messageKey(message) ==
    IF message.type = "summary"
    THEN <<"summary", message.uuid, message.summary>>
    ELSE <<"uuid", message.uuid>>

KeysOf(content) == {messageKey(content[k]) : k \in 1..Len(content)}

\* the loop of sync(): the messages passed to onMessage, in order, given the
\* keys processed so far
\* the loop of sync() without the processedMessageKeys test
syncLoopUnfiltered(messages, processedMessageKeys) == messages

\* the loop of sync() walking the file from its end
RECURSIVE syncLoopNewestFirst(_, _)
syncLoopNewestFirst(messages, processedMessageKeys) ==
    IF messages = <<>> THEN <<>>
    ELSE LET last == messages[Len(messages)]
             key == messageKey(last)
             rest == SubSeq(messages, 1, Len(messages) - 1)
         IN  IF key \in processedMessageKeys
             THEN syncLoopNewestFirst(rest, processedMessageKeys)
             ELSE <<last>> \o syncLoopNewestFirst(rest, processedMessageKeys \cup {key})

RECURSIVE syncLoop(_, _)
syncLoop(messages, processedMessageKeys) ==
    IF messages = <<>> THEN <<>>
    ELSE LET key == messageKey(Head(messages))
         IN  IF key \in processedMessageKeys
             THEN syncLoop(Tail(messages), processedMessageKeys)
             ELSE <<Head(messages)>>
                    \o syncLoop(Tail(messages), processedMessageKeys \cup {key})

\* a scanner created without marking the lines of the initial file
NewScannerNothingSeen(sessionId, existingMessages, onIdle) ==
    [currentSessionId |-> sessionId,
     watcher |-> sessionId # 0,
     interval |-> TRUE,
     syncTimeout |-> FALSE,
     processedMessageKeys |-> {},
     onIdle |-> onIdle]

\* createSessionScanner(opts) once its promise resolved: the keys of the
\* lines read from the initial session's file are processed, the file is
\* watched and the periodic timer runs
NewScanner(sessionId, existingMessages, onIdle) ==
    [currentSessionId |-> sessionId,
     watcher |-> sessionId # 0,
     interval |-> TRUE,
     syncTimeout |-> FALSE,
     processedMessageKeys |-> KeysOf(existingMessages),
     onIdle |-> onIdle]

othersC == <<mq, hist, session, now, ticks, calls, loop, local, remote, requests, turn, env, ws, hook>>

\* files[sid] is the content of <sid>.jsonl (empty: no such file yet);
\* existing is the set of keys marked processed at creation; passes are the
\* sync() calls in order, each with the passes in flight when it started;
\* out is what the scanner called:
\* <<"onMessage", message, pass>> and <<"onIdle", pass>>
InitScanner ==
    /\ \E sessionId \in {0, 1}, onIdle \in BOOLEAN :
       \E f \in {<<>>} \cup {<<e>> : e \in EntryPool} :
       \E n \in 0..Len(f) :
          scan = [scanner |-> NewScanner(sessionId,
                                 IF sessionId = 0 THEN <<>> ELSE SubSeq(f, 1, n), onIdle),
                  files |-> [sid \in SessionIds |-> IF sid = 1 THEN f ELSE <<>>],
                  existing |-> IF sessionId = 0 THEN {} ELSE KeysOf(SubSeq(f, 1, n)),
                  passes |-> <<>>,
                  out |-> <<>>,
                  events |-> 0,
                  cleaned |-> FALSE]
    /\ mq = Unused /\ hist = <<>> /\ session = Unused /\ now = 0 /\ ticks = 0
    /\ calls = <<>> /\ loop = Unused /\ local = Unused /\ remote = Unused
    /\ requests = <<>> /\ turn = "idle" /\ env = Unused /\ ws = Unused /\ hook = Unused

ScanEvent == scan.events < MaxScanEvents

\* the assistant appends a line to a transcript file
ScFileAppend(sid, e) ==
    /\ ScanEvent
    /\ Len(scan.files[sid]) < MaxFileLen
    /\ scan' = [scan EXCEPT !.files[sid] = Append(@, e), !.events = @ + 1]
    /\ UNCHANGED othersC

\* the watcher reports 'change' or 'add'
ScWatcherEvent ==
    /\ ScanEvent
    /\ scan.scanner.watcher
    /\ scan' = [scan EXCEPT !.scanner = scheduleSync(@), !.events = @ + 1]
    /\ UNCHANGED othersC

\* the periodic timer fires
ScInterval ==
    /\ ScanEvent
    /\ scan.scanner.interval
    /\ scan' = [scan EXCEPT !.scanner = scheduleSync(@), !.events = @ + 1]
    /\ UNCHANGED othersC

\* the debounce timeout fires: sync() runs up to its await of readSessionLog
ScSyncStart ==
    /\ scan.scanner.syncTimeout
    /\ Len(scan.passes) < MaxPasses
    /\ LET target == scan.scanner.currentSessionId
           pass == [target |-> target,
                    phase |-> IF target = 0 THEN "done"
                              ELSE IF scan.files[target] = <<>> THEN "read"
                              ELSE "reading",
                    messages |-> <<>>,
                    inflight |-> {q \in 1..Len(scan.passes) : scan.passes[q].phase # "done"}]
       IN  scan' = [scan EXCEPT !.scanner.syncTimeout = FALSE,
                                !.passes = Append(@, pass)]
    /\ UNCHANGED othersC

\* readFile of pass p completes with the file's content at that time
ScRead(p) ==
    /\ p \in 1..Len(scan.passes)
    /\ scan.passes[p].phase = "reading"
    /\ scan' = [scan EXCEPT !.passes[p].phase = "read",
                            !.passes[p].messages = scan.files[scan.passes[p].target]]
    /\ UNCHANGED othersC

\* sync() calling onIdle after any pass that forwarded something
ScProcessIdleOnAnyMessage(p) ==
    /\ p \in 1..Len(scan.passes)
    /\ scan.passes[p].phase = "read"
    /\ LET fwd == syncLoop(scan.passes[p].messages, scan.scanner.processedMessageKeys)
           idle == fwd # <<>> /\ scan.scanner.onIdle
       IN  scan' = [scan EXCEPT
                !.scanner.processedMessageKeys = @ \cup KeysOf(fwd),
                !.out = @ \o [k \in 1..Len(fwd) |-> <<"onMessage", fwd[k], p>>]
                          \o (IF idle THEN << <<"onIdle", p>> >> ELSE <<>>),
                !.passes[p].phase = "done"]
    /\ UNCHANGED othersC

\* sync() of pass p continues after its await: the loop and the idle call
ScProcess(p) ==
    /\ p \in 1..Len(scan.passes)
    /\ scan.passes[p].phase = "read"
    /\ LET fwd == syncLoop(scan.passes[p].messages, scan.scanner.processedMessageKeys)
           sawAssistantMessage == \E k \in 1..Len(fwd) : fwd[k].type = "assistant"
           idle == sawAssistantMessage /\ scan.scanner.onIdle
       IN  scan' = [scan EXCEPT
                !.scanner.processedMessageKeys = @ \cup KeysOf(fwd),
                !.out = @ \o [k \in 1..Len(fwd) |-> <<"onMessage", fwd[k], p>>]
                          \o (IF idle THEN << <<"onIdle", p>> >> ELSE <<>>),
                !.passes[p].phase = "done"]
    /\ UNCHANGED othersC

\* the hook receiver or the session callback reports a session id
ScOnNewSession(sessionId) ==
    /\ ScanEvent
    /\ scan' = [scan EXCEPT !.scanner = onNewSession(@, sessionId), !.events = @ + 1]
    /\ UNCHANGED othersC

ScCleanup ==
    /\ ~scan.cleaned
    /\ scan' = [scan EXCEPT !.scanner = cleanupScanner(@), !.cleaned = TRUE]
    /\ UNCHANGED othersC

NextScanner ==
    \/ \E sid \in SessionIds, e \in EntryPool : ScFileAppend(sid, e)
    \/ ScWatcherEvent
    \/ ScInterval
    \/ ScSyncStart
    \/ \E p \in 1..Len(scan.passes) : ScRead(p)
    \/ \E p \in 1..Len(scan.passes) : ScProcess(p)
    \/ \E sessionId \in SessionIds : ScOnNewSession(sessionId)
    \/ ScCleanup

SpecScanner == InitScanner /\ [][NextScanner]_vars

-----------------------------------------------------------------------------
(* C15 .. C18 *)

\* the positions of out holding an onMessage call
OnMessageCalls == {i \in 1..Len(scan.out) : scan.out[i][1] = "onMessage"}
\* the positions of out holding a call made by pass p
CallsOf(p) == {i \in 1..Len(scan.out) : scan.out[i][Len(scan.out[i])] = p}
ForwardedKeys == {messageKey(scan.out[i][2]) : i \in OnMessageCalls}
\* pass p and pass q were in flight at the same time
Overlap(p, q) == p \in scan.passes[q].inflight \/ q \in scan.passes[p].inflight
Done(p) == IF p \in 1..Len(scan.passes) THEN scan.passes[p].phase = "done" ELSE FALSE

\* C15: no key (messageKey of a transcript line) is passed to onMessage twice.
C15_KeyForwardedAtMostOnce ==
    \A i, j \in OnMessageCalls :
        i # j => messageKey(scan.out[i][2]) # messageKey(scan.out[j][2])

\* two passes that overlapped in time both read a line; one of them forwarded
\* it and the other one did not
C15_Witness ==
    \E p, q \in 1..Len(scan.passes) :
        /\ p # q /\ Overlap(p, q) /\ Done(p) /\ Done(q)
        /\ \E i \in OnMessageCalls \cap CallsOf(p) :
              \E k \in 1..Len(scan.passes[q].messages) :
                  scan.passes[q].messages[k] = scan.out[i][2]

FirstPos(content, message) ==
    CHOOSE k \in 1..Len(content) :
        /\ messageKey(content[k]) = messageKey(message)
        /\ \A j \in 1..(k - 1) : messageKey(content[j]) # messageKey(message)

\* C17: of two messages forwarded from the same target file, the one
\* forwarded first is the one that comes first in the file.
C17_FileOrder ==
    \A i, j \in OnMessageCalls :
        (i < j /\ scan.passes[scan.out[i][3]].target = scan.passes[scan.out[j][3]].target) =>
            LET content == scan.files[scan.passes[scan.out[i][3]].target]
            IN  FirstPos(content, scan.out[i][2]) < FirstPos(content, scan.out[j][2])

\* two passes on the same file overlapped and each forwarded a line
C17_Witness ==
    \E i, j \in OnMessageCalls :
        /\ i < j
        /\ scan.out[i][3] # scan.out[j][3]
        /\ Overlap(scan.out[i][3], scan.out[j][3])
        /\ scan.passes[scan.out[i][3]].target = scan.passes[scan.out[j][3]].target

\* C18: a pass calls onIdle once, after its onMessage calls, if it forwarded
\* an assistant message and an idle observer is registered; otherwise it
\* does not call it.
C18_IdleIffAssistantForwarded ==
    \A p \in 1..Len(scan.passes) :
        LET msgs == OnMessageCalls \cap CallsOf(p)
            idles == CallsOf(p) \ OnMessageCalls
        IN  /\ Cardinality(idles) =
                  (IF scan.scanner.onIdle
                      /\ \E i \in msgs : scan.out[i][2].type = "assistant"
                   THEN 1 ELSE 0)
            /\ \A i \in msgs, j \in idles : i < j
            /\ ~Done(p) => CallsOf(p) = {}

\* one pass forwarded a user message and an assistant message and then
\* called onIdle; another pass forwarded something and did not call it
C18_Witness ==
    \E p, q \in 1..Len(scan.passes) :
        /\ Cardinality(OnMessageCalls \cap CallsOf(p)) = 2
        /\ CallsOf(p) \ OnMessageCalls # {}
        /\ OnMessageCalls \cap CallsOf(q) # {}
        /\ CallsOf(q) \ OnMessageCalls = {}
        /\ scan.scanner.onIdle

-----------------------------------------------------------------------------
(* SpecWs: the websocket client of a session (createWSClient)                *)

MaxOpens == 2
MaxCloseCalls == 1
MaxSends == 2

maxReconnects == 50

\* a delay that keeps growing past ten seconds
reconnectDelayUncapped(k) == 1000 * k

\* the delay of the reconnect scheduled by the close handler for attempt k
reconnectDelay(k) == IF 1000 * k < 10000 THEN 1000 * k ELSE 10000

\* createWSClient() after its first connect(): readyState is that of the
\* socket in `ws`; pingTimer tells whether the interval in pingInterval is
\* still running; reconnectTimer is the delay of the pending
\* setTimeout(connect, delay), 0 if none is pending; promise is the state of
\* the returned promise.  History: opens and closeCalls count what happened,
\* failsSinceOpen counts unexpected closures since the last open, and
\* closeNotified counts closeHandler calls; sendCalls counts the calls of the
\* send operations and sent is what ws.send() was given, each message with
\* the number of the call that carried it; loopRunning tells whether main
\* is inside its call of loop().  sockets counts the WebSocket objects that
\* have not reported 'close', reconnectTimers the pending setTimeout(connect)
\* calls, pingTimers the running keep-alive intervals.
NewWsClient ==
    [readyState |-> "CONNECTING",
     messageHandler |-> FALSE, closeHandler |-> FALSE,
     pingInterval |-> FALSE, pingTimer |-> FALSE,
     reconnectAttempts |-> 0,
     isIntentionallyClosed |-> FALSE,
     clientResolved |-> FALSE,
     reconnectTimer |-> 0,
     promise |-> "pending",
     opens |-> 0, closeCalls |-> 0, failsSinceOpen |-> 0, closeNotified |-> 0,
     sendCalls |-> 0, sent |-> <<>>, loopRunning |-> FALSE,
     sockets |-> 1, reconnectTimers |-> 0, pingTimers |-> 0]

\* connect(): a new socket replaces the one in `ws`
connect(w) ==
    [w EXCEPT !.readyState = "CONNECTING", !.reconnectTimer = 0,
              !.sockets = @ + 1, !.reconnectTimers = @ - 1]

\* an open handler that keeps the attempt count of the failures before it
onOpenKeepingAttempts(w) ==
    LET r == [w EXCEPT !.readyState = "OPEN",
                       !.pingInterval = TRUE, !.pingTimer = TRUE,
                       !.pingTimers = (IF w.pingInterval /\ w.pingTimer THEN @ - 1 ELSE @) + 1,
                       !.opens = @ + 1, !.failsSinceOpen = 0]
    IN  IF w.clientResolved THEN r
        ELSE IF w.promise # "pending" THEN [r EXCEPT !.clientResolved = TRUE]
        ELSE [r EXCEPT !.clientResolved = TRUE, !.promise = "resolved",
                       !.messageHandler = TRUE, !.closeHandler = TRUE,
                       !.loopRunning = TRUE]

\* ws.on('open')
onOpen(w) ==
    LET r == [w EXCEPT !.readyState = "OPEN", !.reconnectAttempts = 0,
                       !.pingInterval = TRUE, !.pingTimer = TRUE,
                       !.pingTimers = (IF w.pingInterval /\ w.pingTimer THEN @ - 1 ELSE @) + 1,
                       !.opens = @ + 1, !.failsSinceOpen = 0]
    IN  IF w.clientResolved THEN r
        ELSE IF w.promise # "pending" THEN [r EXCEPT !.clientResolved = TRUE]
        ELSE \* resolve(client); Session.connect registers its handlers
             \* and main enters loop()
             [r EXCEPT !.clientResolved = TRUE, !.promise = "resolved",
                       !.messageHandler = TRUE, !.closeHandler = TRUE,
                       !.loopRunning = TRUE]

\* a close handler that leaves the keep-alive interval running
onCloseKeepingPing(w) ==
    LET c == [w EXCEPT !.readyState = "CLOSED", !.sockets = @ - 1]
        notify(x) == IF x.closeHandler
                     THEN [x EXCEPT !.closeNotified = @ + 1]
                     ELSE x
    IN  IF c.isIntentionallyClosed THEN notify(c)
        ELSE LET f == [c EXCEPT !.failsSinceOpen = @ + 1]
             IN  IF f.reconnectAttempts < maxReconnects
                 THEN [f EXCEPT !.reconnectAttempts = @ + 1,
                                !.reconnectTimers = @ + 1,
                                !.reconnectTimer = reconnectDelay(f.reconnectAttempts + 1)]
                 ELSE notify(f)

\* the close observer Session.connect registers: its body is empty
sessionOnClose(w) == w

\* a close handler that gives up without telling the close observer
onCloseSilentGiveUp(w) ==
    LET c == [w EXCEPT !.readyState = "CLOSED",
                       !.sockets = @ - 1,
                       !.pingInterval = FALSE,
                       !.pingTimer = IF w.pingInterval THEN FALSE ELSE @,
                       !.pingTimers = IF w.pingInterval /\ w.pingTimer THEN @ - 1 ELSE @]
        notify(x) == IF x.closeHandler
                     THEN sessionOnClose([x EXCEPT !.closeNotified = @ + 1])
                     ELSE x
    IN  IF c.isIntentionallyClosed THEN notify(c)
        ELSE LET f == [c EXCEPT !.failsSinceOpen = @ + 1]
             IN  IF f.reconnectAttempts < maxReconnects
                 THEN [f EXCEPT !.reconnectAttempts = @ + 1,
                                !.reconnectTimers = @ + 1,
                                !.reconnectTimer = reconnectDelay(f.reconnectAttempts + 1)]
                 ELSE f

\* ws.on('close')
onClose(w) ==
    LET c == [w EXCEPT !.readyState = "CLOSED",
                       !.sockets = @ - 1,
                       !.pingInterval = FALSE,
                       !.pingTimer = IF w.pingInterval THEN FALSE ELSE @,
                       !.pingTimers = IF w.pingInterval /\ w.pingTimer THEN @ - 1 ELSE @]
        notify(x) == IF x.closeHandler
                     THEN sessionOnClose([x EXCEPT !.closeNotified = @ + 1])
                     ELSE x
    IN  IF c.isIntentionallyClosed THEN notify(c)
        ELSE LET f == [c EXCEPT !.failsSinceOpen = @ + 1]
             IN  IF f.reconnectAttempts < maxReconnects
                 THEN [f EXCEPT !.reconnectAttempts = @ + 1,
                                !.reconnectTimers = @ + 1,
                                !.reconnectTimer = reconnectDelay(f.reconnectAttempts + 1)]
                 ELSE notify(f)

\* ws.on('error') before the close event of a failed connection attempt
onError(w) ==
    IF ~w.clientResolved /\ w.promise = "pending" THEN [w EXCEPT !.promise = "rejected"] ELSE w

\* client.close()
clientClose(w) ==
    [w EXCEPT !.isIntentionallyClosed = TRUE,
              !.pingTimer = IF w.pingInterval THEN FALSE ELSE @,
              !.pingTimers = IF w.pingInterval /\ w.pingTimer THEN @ - 1 ELSE @,
              !.readyState = IF @ \in {"CONNECTING", "OPEN"} THEN "CLOSING" ELSE @,
              !.closeCalls = @ + 1]

\* the typed send operations of the client
SendKinds == {"claude_event", "thinking", "mode_change"}

\* a send operation that does not look at the channel
sendUnchecked(w, kind) ==
    [w EXCEPT !.sendCalls = @ + 1, !.sent = Append(@, <<kind, w.sendCalls + 1>>)]

\* sendClaudeEvent / sendThinking / sendModeChange
send(w, kind) ==
    IF w.readyState = "OPEN"
    THEN [w EXCEPT !.sendCalls = @ + 1, !.sent = Append(@, <<kind, w.sendCalls + 1>>)]
    ELSE [w EXCEPT !.sendCalls = @ + 1]

othersW == <<mq, hist, session, now, ticks, calls, loop, local, remote, requests, turn, env, scan, hook>>

InitWs ==
    /\ ws = NewWsClient
    /\ hook = Unused
    /\ mq = Unused /\ hist = <<>> /\ session = Unused /\ now = 0 /\ ticks = 0
    /\ calls = <<>> /\ loop = Unused /\ local = Unused /\ remote = Unused
    /\ requests = <<>> /\ turn = "idle" /\ env = Unused /\ scan = Unused

\* main exits the process when Session.connect() throws: the rejected
\* promise of the first connection ends the program, timers included
WsRunning == ws.promise # "rejected"

\* the reconnect timeout fires
WsReconnectTimer ==
    /\ WsRunning
    /\ ws.reconnectTimer # 0
    /\ ws' = connect(ws)
    /\ UNCHANGED othersW

\* the connection is established
WsOpen ==
    /\ WsRunning
    /\ ws.readyState = "CONNECTING"
    /\ ws.opens < MaxOpens
    /\ ws' = onOpen(ws)
    /\ UNCHANGED othersW

\* the connection attempt fails: 'error', then 'close'
WsConnectFails ==
    /\ WsRunning
    /\ ws.readyState = "CONNECTING"
    /\ ws' = onClose(onError(ws))
    /\ UNCHANGED othersW

\* the open connection is lost
WsDrops ==
    /\ WsRunning
    /\ ws.readyState = "OPEN"
    /\ ws' = onClose(ws)
    /\ UNCHANGED othersW

\* the socket closed by ws.close() reports 'close'
WsClosed ==
    /\ WsRunning
    /\ ws.readyState = "CLOSING"
    /\ ws' = onClose(ws)
    /\ UNCHANGED othersW

\* main calls Session.close(), which calls client.close(), after loop()
\* returned or from its signal handler, which then exits; the caller holds
\* the client once the promise resolved
WsClientClose ==
    /\ ws.promise = "resolved"
    /\ ws.closeCalls < MaxCloseCalls
    /\ ws' = [clientClose(ws) EXCEPT !.loopRunning = FALSE]
    /\ UNCHANGED othersW

\* Session.sendClaudeEvent / sendThinking / sendModeChange, once
\* Session.connect() has the client
WsSend(kind) ==
    /\ ws.promise = "resolved"
    /\ ws.sendCalls < MaxSends
    /\ ws' = send(ws, kind)
    /\ UNCHANGED othersW

NextWs ==
    \/ \E kind \in SendKinds : WsSend(kind)
    \/ WsReconnectTimer
    \/ WsOpen
    \/ WsConnectFails
    \/ WsDrops
    \/ WsClosed
    \/ WsClientClose

SpecWs == InitWs /\ [][NextWs]_vars

\* timers fire and a connection attempt ends, by opening or by failing
FairnessWs ==
    /\ WF_vars(WsReconnectTimer)
    /\ WF_vars(WsOpen \/ WsConnectFails)
    /\ WF_vars(WsClosed)

FairSpecWs == SpecWs /\ FairnessWs

-----------------------------------------------------------------------------
(* C19, C20 *)

\* C19 as stated: once close() was called no connection is started.
C19_Original ==
    [][ws.isIntentionallyClosed =>
          ~(ws'.readyState = "CONNECTING" /\ ws.readyState # "CONNECTING")]_vars

\* C20: an open socket means reconnectAttempts = 0, the open handler leaves
\* it at 0, the counter is the number of unexpected closures since the last
\* open, up to the bound of 50, and a pending reconnect delay is the one of
\* that number.
C20_AttemptsResetOnOpen ==
    /\ [](ws.readyState = "OPEN" => ws.reconnectAttempts = 0)
    /\ [](ws.reconnectAttempts =
            (IF ws.failsSinceOpen < maxReconnects THEN ws.failsSinceOpen ELSE maxReconnects))
    /\ [](ws.reconnectTimer # 0 => ws.reconnectTimer = reconnectDelay(ws.failsSinceOpen))
    /\ [][(ws'.opens # ws.opens) => ws'.reconnectAttempts = 0]_vars

\* the channel reopened after failed attempts had raised the counter
C20_Witness ==
    /\ ws.readyState = "OPEN"
    /\ ws.opens = 2
    /\ ws.reconnectAttempts = 0

-----------------------------------------------------------------------------
(* C21, C22 *)

\* the closure that found reconnectAttempts at maxReconnects has happened
Exhausted == ws.failsSinceOpen = maxReconnects + 1

\* C21: after an unexpected closure a reconnect is pending as long as fewer
\* than 50 consecutive attempts failed, and the pending attempt ends in an
\* open channel, in exhaustion or in a close() by the caller; on exhaustion
\* the close observer is called exactly once, and afterwards no connection
\* is started and the observer is not called again.
C21_ReconnectUntilOpenOrExhausted ==
    /\ [](ws.failsSinceOpen <= maxReconnects + 1)
    /\ []((/\ WsRunning
           /\ ws.readyState = "CLOSED"
           /\ ~ws.isIntentionallyClosed
           /\ ws.failsSinceOpen \in 1..maxReconnects) => ws.reconnectTimer # 0)
    /\ [](Exhausted => /\ ws.readyState = "CLOSED"
                       /\ ws.reconnectTimer = 0
                       /\ ws.closeNotified = 1)
    /\ [][ /\ (~Exhausted /\ Exhausted') =>
                  ws'.closeNotified = ws.closeNotified + 1
           /\ Exhausted =>
                  /\ ws'.readyState = "CLOSED"
                  /\ ws'.reconnectTimer = 0
                  /\ ws'.closeNotified = ws.closeNotified ]_vars
    /\ ((WsRunning /\ ws.readyState = "CLOSED" /\ ws.reconnectTimer # 0 /\ ~ws.isIntentionallyClosed)
            ~> (ws.readyState = "OPEN" \/ Exhausted \/ ws.isIntentionallyClosed))

\* fifty reconnect attempts failed after the channel had been open
C21_Witness ==
    /\ Exhausted
    /\ ws.opens > 0
    /\ ws.reconnectAttempts = maxReconnects
    /\ ws.closeNotified = 1

\* C22: the pending delay before reconnect attempt k since the last open is
\* 1000 * k ms for k = 1..10 and 10000 ms for k = 11..50.
C22_LinearBackoffCapped ==
    ws.reconnectTimer # 0 =>
        LET k == ws.failsSinceOpen
        IN  /\ k \in 1..50
            /\ k = ws.reconnectAttempts
            /\ (k <= 10 => ws.reconnectTimer = 1000 * k)
            /\ (k >= 10 => ws.reconnectTimer = 10000)

\* the delay before the fiftieth attempt
C22_Witness ==
    /\ ws.failsSinceOpen = 50
    /\ ws.reconnectTimer = 10000

-----------------------------------------------------------------------------
(* C23 *)

\* C23: a send operation called while the channel is not open leaves the
\* transport as it was and its message is never handed to the socket, not
\* even after a reconnect; a send called while the channel is open hands
\* its message to the socket at once, so the messages on the wire are in
\* call order.
C23_SendOnlyWhileOpen ==
    /\ [](\A i, j \in 1..Len(ws.sent) : i < j => ws.sent[i][2] < ws.sent[j][2])
    /\ [][ /\ (ws'.sendCalls # ws.sendCalls /\ ws.readyState # "OPEN") =>
                  ws' = [ws EXCEPT !.sendCalls = ws'.sendCalls]
           /\ (ws'.sendCalls # ws.sendCalls /\ ws.readyState = "OPEN") =>
                  /\ Len(ws'.sent) = Len(ws.sent) + 1
                  /\ SubSeq(ws'.sent, 1, Len(ws.sent)) = ws.sent
                  /\ ws'.sent[Len(ws'.sent)][2] = ws'.sendCalls
                  /\ ws'.sent[Len(ws'.sent)][1] \in SendKinds
           /\ (ws'.sendCalls = ws.sendCalls) => ws'.sent = ws.sent ]_vars

\* a send was dropped while the channel was down, the channel reopened and
\* a later send went out: the dropped one is not on the wire
C23_Witness ==
    /\ ws.readyState = "OPEN"
    /\ ws.opens = 2
    /\ ws.sendCalls = 2
    /\ Len(ws.sent) = 1
    /\ ws.sent[1][2] = 2

-----------------------------------------------------------------------------
(* C24 *)

\* C24 as stated: once the reconnect attempts are exhausted the session has
\* ended, main is no longer running the mode loop.
C24_Original == Exhausted => ~ws.loopRunning

-----------------------------------------------------------------------------
(* C25 *)

\* C25 as stated: when the subprocess crashes or exits with a non-zero code
\* and no exit or switch was requested, the Local driver starts it again and
\* goes on; when one was requested, the driver ends with the requested
\* reason and does not start it again.
C25_Original ==
    [][\A how \in {"nonzero", "signal"} :
          ChildExit(how) =>
              IF local.exitReason = "null"
              THEN /\ local'.pc = "claudeLocal"
                   /\ local'.child = "running"
                   /\ loop' = loop
              ELSE /\ local'.child = "none"
                   /\ local'.pc \in {"cleanup", "off"}
                   /\ local'.exitReason = local.exitReason]_vars

-----------------------------------------------------------------------------
(* C26 *)

\* C26: when the query of a Remote driver invocation fails, the driver
\* starts a fresh session exactly if this was the invocation's first query,
\* it resumed a prior session and no abort is set; otherwise it starts
\* nothing and returns to the loop without an error.  An invocation never
\* makes more than one retry, and none without a resume.
C26_ResumeRetriedOnce ==
    /\ [](remote.retries <= 1)
    /\ [](remote.retries = 1 => remote.startFrom)
    /\ [][ /\ SdkThrows =>
                IF remote.retries = 0 /\ remote.startFrom /\ ~remote.aborted
                THEN /\ remote'.retries = 1
                     /\ remote'.pc = "streaming"
                     /\ remote'.query = "running"
                     /\ loop' = loop
                ELSE /\ remote'.retries = remote.retries
                     /\ remote'.pc = "off"
                     /\ remote'.query = "ended"
                     /\ loop'.pc \in {"top", "done"}
           /\ (remote'.retries > remote.retries) => SdkThrows ]_vars

\* the resumed query failed and the fresh one is running
C26_Witness ==
    /\ remote.retries = 1
    /\ remote.startFrom
    /\ remote.pc = "streaming"
    /\ remote.query = "running"

-----------------------------------------------------------------------------
(* C27 *)

\* Enter, Escape or 'q' on the keyboard, or a switch frame from the
\* collaborator, while the Remote driver has its handlers registered
SwitchSignal ==
    \/ Keypress("switch")
    \/ WsSwitch /\ session.switchHandler = "remote"

\* what every switch signal does to the queue and to the abort signal
SwitchSignalAborts ==
    /\ mq'.waitResolve = 0
    /\ (mq.waitResolve # 0 => mq'.waits[mq.waitResolve] = Null)
    /\ remote'.aborted

\* C27 as stated: every switch signal that reaches the active Remote driver
\* unblocks the pending wait, fires the abort signal and makes the driver
\* return 'switch', so that the loop enters Local mode.
C27_Original ==
    [][SwitchSignal =>
          /\ SwitchSignalAborts
          /\ remote'.exitReason = "switch"]_vars

\* C27 (amended): a switch signal that reaches the active Remote driver
\* before any exit request (Ctrl+C) unblocks the pending wait with null,
\* fires the abort signal and fixes the reason 'switch'; the driver then
\* returns, at once if it was waiting for a message, and the loop enters
\* Local mode.  After an exit request the signal still resets the queue and
\* aborts, but the reason stays 'exit'.
C27_SwitchSignalLeadsToLocal ==
    /\ [][SwitchSignal =>
             /\ SwitchSignalAborts
             /\ remote'.exitReason = (IF remote.exitReason = "null" THEN "switch"
                                      ELSE remote.exitReason)
             /\ (remote.pc = "nextMessage" /\ remote.exitReason = "null") =>
                    (remote'.pc = "off" /\ loop'.pc = "top" /\ loop'.mode = "local")]_vars
    /\ [][(remote.exitReason = "switch" /\ remote.pc # "off") =>
             remote'.exitReason = "switch"]_vars
    /\ ((loop.pc = "remote" /\ remote.aborted /\ remote.exitReason = "switch")
            ~> (loop.pc = "local" /\ loop.mode = "local"))
    /\ ((loop.pc = "top" /\ loop.mode = "local")
            ~> (loop.pc = "local" /\ loop.mode = "local"))

\* the switch came while the query waited for a permission answer, and the
\* loop is in Local mode
C27_Witness ==
    /\ loop.pc = "local" /\ loop.mode = "local"
    /\ remote.aborted /\ remote.exitReason = "switch" /\ remote.pc = "off"
    /\ \E i \in 1..Len(requests) :
          requests[i].inv = remote.inv /\ requests[i].answer = "waiting"

-----------------------------------------------------------------------------
(* C28, C29 *)

Other(m) == IF m = "local" THEN "remote" ELSE "local"

\* the mode of the k-th driver invocation if the invocations alternate
ModeOf(k) == IF k % 2 = 1 THEN loop.startingMode ELSE Other(loop.startingMode)

\* the reason the driver of mode m has returned with
ReturnedReason(m, l, r) == IF m = "local" THEN l.exitReason ELSE r.exitReason

\* C28: the loop starts in the configured mode, Local if none is given; the
\* k-th driver invocation is of the starting mode for odd k and of the other
\* mode for even k; a driver that returns 'switch' sends the loop to the
\* other mode, and after a driver returned 'exit' the loop has ended and
\* nothing more happens.
C28_ModesAlternateUntilExit ==
    /\ [](startMode("undefined") = "local")
    /\ []((loop.entered = 0 /\ loop.pc \in {"top", "announced"}) =>
             loop.mode = loop.startingMode)
    /\ [](loop.pc \in {"local", "remote"} =>
             (loop.pc = loop.mode /\ loop.mode = ModeOf(loop.entered)))
    /\ [](loop.pc \in {"top", "announced"} => loop.mode = ModeOf(loop.entered + 1))
    /\ [](loop.pc = "done" => (local.pc = "off" /\ remote.pc = "off"))
    /\ [][ /\ (loop'.entered # loop.entered) =>
                /\ loop'.entered = loop.entered + 1
                /\ loop'.mode = loop.mode
                /\ (loop.mode = "local" =>
                       (local'.pc = "startHookServer" /\ remote' = remote))
                /\ (loop.mode = "remote" =>
                       (remote'.inv = loop'.entered /\ local' = local))
           /\ (loop.pc \in {"local", "remote"} /\ loop'.pc # loop.pc) =>
                \/ /\ ReturnedReason(loop.pc, local', remote') = "switch"
                   /\ loop'.pc = "top"
                   /\ loop'.mode = Other(loop.mode)
                \/ /\ ReturnedReason(loop.pc, local', remote') = "exit"
                   /\ loop'.pc = "done"
           /\ (loop.pc = "done") =>
                (loop' = loop /\ local' = local /\ remote' = remote) ]_vars

\* Local, Remote, Local: the third invocation is of the starting mode again
C28_Witness ==
    /\ loop.startingMode = "local"
    /\ loop.entered = 3
    /\ loop.pc = "local"
    /\ local.pc = "claudeLocal"

\* C29: every driver invocation is preceded by one call of onModeChange and
\* one call of session.sendModeChange with the mode of that invocation, made
\* in the same iteration before the driver is entered; nothing else makes
\* these calls.
C29_AnnouncedOncePerEntry ==
    /\ [](loop.pc = "announced" =>
             /\ loop.modeChanges = loop.entered + 1
             /\ loop.modeSends = loop.entered + 1
             /\ loop.modeChangeLast = loop.mode
             /\ loop.modeSendLast = loop.mode)
    /\ [](loop.pc # "announced" =>
             /\ loop.modeChanges = loop.entered
             /\ loop.modeSends = loop.entered)
    /\ [](loop.pc \in {"local", "remote"} =>
             /\ loop.modeChangeLast = loop.pc
             /\ loop.modeSendLast = loop.pc)
    /\ [][(loop'.entered # loop.entered) =>
             /\ loop.pc = "announced"
             /\ loop.modeChangeLast = loop.mode
             /\ loop.modeSendLast = loop.mode
             /\ loop'.modeChanges = loop.modeChanges
             /\ loop'.modeSends = loop.modeSends]_vars

\* the transition to Remote was announced and the Remote driver entered
C29_Witness ==
    /\ loop.startingMode = "local"
    /\ loop.pc = "remote"
    /\ loop.entered = 2
    /\ loop.modeChanges = 2 /\ loop.modeChangeLast = "remote"
    /\ loop.modeSends = 2 /\ loop.modeSendLast = "remote"

-----------------------------------------------------------------------------
(* C30 *)

\* the subprocess of the Local driver is alive from its spawn to its exit
\* event, signalled or not
LocalProcessAlive(l) == l.child \in {"running", "signalled"}

\* the assistant process behind the Remote driver's query is alive from the
\* start of the query until its stream ended or failed
RemoteProcessAlive(r) == r.query \in {"running", "aborted"}

Alive(l, r) ==
    (IF LocalProcessAlive(l) THEN 1 ELSE 0) + (IF RemoteProcessAlive(r) THEN 1 ELSE 0)

-----------------------------------------------------------------------------
(***************************************************************************)
(* SpecHook: the hook server of startHookServer (hooks/hookServer.ts).     *)
(* One action serves one HTTP request; the request is drawn from small     *)
(* sets of methods, paths and bodies.                                      *)
(***************************************************************************)

\* how many requests the server is sent
MaxRequests == 2

\* the members of the type HookEventType
HookEventTypes ==
    {"SessionStart", "UserPromptSubmit", "PostToolUse", "PermissionRequest", "Stop", "SessionEnd"}

\* what a body can hold as hook_event_name: no such field, the empty string,
\* a member of HookEventType, or another hook name of the assistant
EventNames == {"absent", "", "PreToolUse"} \cup HookEventTypes

\* the text of a body: not JSON at all, the JSON literal null, or a JSON
\* object with its fields session_id, sessionId and hook_event_name
Bodies ==
    {[json |-> j, session_id |-> "absent", sessionId |-> "absent", hook_event_name |-> "absent"] :
        j \in {"malformed", "null"}}
    \cup [json : {"object"}, session_id : {"absent", "", "s1"}, sessionId : {"absent", "s2"},
          hook_event_name : EventNames]

\* a request: slow = its body has not ended when the 5 s timer fires
Requests ==
    [method : {"POST", "GET"}, url : {"/hook", "/hook/session-start", "/other"},
     body : Bodies, slow : BOOLEAN]

\* JavaScript truthiness of an optional string field
truthy(v) == v \notin {"absent", ""}

\* let data = {}; try { data = JSON.parse(body) } catch {}
parseBody(body) ==
    IF body.json = "malformed"
    THEN [json |-> "object", session_id |-> "absent", sessionId |-> "absent", hook_event_name |-> "absent"]
    ELSE body

\* data.session_id || data.sessionId
sessionIdOf(data) == IF truthy(data.session_id) THEN data.session_id ELSE data.sessionId

\* the callbacks of one accepted request: onSessionHook, then onHookEvent
callbacks(url, data) ==
    IF ~truthy(sessionIdOf(data))
    THEN [sessionHook |-> <<>>, hookEvent |-> <<>>]
    ELSE [sessionHook |-> IF data.hook_event_name = "SessionStart" \/ url = "/hook/session-start"
                          THEN <<sessionIdOf(data)>> ELSE <<>>,
          hookEvent   |-> IF truthy(data.hook_event_name)
                          THEN <<<<data.hook_event_name, sessionIdOf(data)>>>> ELSE <<>>]

\* the request listener: the status written to the response and the calls
\* made.  Reading a property of null throws, which the outer catch answers
\* with 500; after the timer answered 408 the later writeHead(200) throws
\* and the catch finds the headers sent.
handle(req) ==
    IF ~(req.method = "POST" /\ req.url \in {"/hook", "/hook/session-start"})
    THEN [status |-> 404, sessionHook |-> <<>>, hookEvent |-> <<>>]
    ELSE LET data == parseBody(req.body)
         IN  IF data.json = "null"
             THEN [status |-> IF req.slow THEN 408 ELSE 500, sessionHook |-> <<>>, hookEvent |-> <<>>]
             ELSE [status      |-> IF req.slow THEN 408 ELSE 200,
                   sessionHook |-> callbacks(req.url, data).sessionHook,
                   hookEvent   |-> callbacks(req.url, data).hookEvent]

NoRequest == [method |-> "none"]

NewHookServer == [pc |-> "listening", served |-> 0, req |-> NoRequest, res |-> NoRequest]

othersH == <<mq, hist, session, now, ticks, calls, loop, local, remote, requests, turn, env, scan, ws>>

InitHook ==
    /\ hook = NewHookServer
    /\ mq = Unused /\ hist = Unused /\ session = Unused /\ now = 0 /\ ticks = 0
    /\ calls = Unused /\ loop = Unused /\ local = Unused /\ remote = Unused
    /\ requests = <<>> /\ turn = "idle" /\ env = Unused /\ scan = Unused /\ ws = Unused

\* one request arrives and is served
HookRequest(req) ==
    /\ hook.pc = "listening" /\ hook.served < MaxRequests
    /\ hook' = [hook EXCEPT !.served = @ + 1, !.req = req, !.res = handle(req)]
    /\ UNCHANGED othersH

\* stop(): server.close()
HookStop ==
    /\ hook.pc = "listening"
    /\ hook' = [hook EXCEPT !.pc = "stopped"]
    /\ UNCHANGED othersH

NextHook ==
    \/ \E req \in Requests : HookRequest(req)
    \/ HookStop

SpecHook == InitHook /\ [][NextHook]_vars

-----------------------------------------------------------------------------
(* C31 *)

\* the last request served was a POST to /hook whose body arrived in time
PostHook == hook.req.method = "POST" /\ hook.req.url = "/hook" /\ ~hook.req.slow

\* the body of the last request carries a session identifier
CarriesSessionId ==
    /\ hook.req.body.json = "object"
    /\ truthy(hook.req.body.session_id) \/ truthy(hook.req.body.sessionId)

\* C31 (as stated): a POST to /hook with a session identifier informs the
\* orchestrator iff the kind is SessionStart and forwards the event exactly
\* once iff the kind is one of the six known kinds; a body that is malformed
\* or carries no session identifier triggers no callback and is answered
\* 200; any other path is answered 404.
C31_Original ==
    hook.req # NoRequest =>
        /\ (PostHook /\ CarriesSessionId) =>
              /\ Len(hook.res.sessionHook) = 1 <=> hook.req.body.hook_event_name = "SessionStart"
              /\ Len(hook.res.sessionHook) <= 1
              /\ Len(hook.res.hookEvent) = 1 <=> hook.req.body.hook_event_name \in HookEventTypes
              /\ Len(hook.res.hookEvent) <= 1
        /\ (PostHook /\ ~CarriesSessionId) =>
              /\ hook.res.sessionHook = <<>> /\ hook.res.hookEvent = <<>>
              /\ hook.res.status = 200
        /\ (hook.req.url # "/hook") => hook.res.status = 404

\* the part of C31 on a null body alone: answered 200
C31_NullBodyAnswered200 ==
    (PostHook /\ hook.req.body.json = "null") => hook.res.status = 200

\* the part of C31 on the kinds alone: only the six known kinds are forwarded
C31_OnlyKnownKindsForwarded ==
    (PostHook /\ hook.res.hookEvent # <<>>) => hook.req.body.hook_event_name \in HookEventTypes

\* the part of C31 on paths alone
C31_OtherPath404 ==
    (hook.req # NoRequest /\ hook.req.url # "/hook") => hook.res.status = 404

\* what the listener does hold: no session identifier, no callback; a
\* callback at most once; the orchestrator informed iff SessionStart
C31_Holds ==
    hook.req # NoRequest =>
        /\ Len(hook.res.sessionHook) <= 1 /\ Len(hook.res.hookEvent) <= 1
        /\ (PostHook /\ CarriesSessionId) =>
              (Len(hook.res.sessionHook) = 1 <=> hook.req.body.hook_event_name = "SessionStart")
        /\ ~CarriesSessionId => hook.res.sessionHook = <<>> /\ hook.res.hookEvent = <<>>
        /\ (PostHook /\ hook.req.body.json = "malformed") => hook.res.status = 200
        /\ hook.req.url = "/other" => hook.res.status = 404

-----------------------------------------------------------------------------
(* C32 *)

\* the scanner of the Local driver holds no watcher and no timer
ScannerTornDown(l) ==
    ~l.scanner.watcher /\ ~l.scanner.interval /\ ~l.scanner.syncTimeout

\* the Local driver returned, or is returning, from an entry that found
\* messages in the queue
EarlyReturn(l) == l.pc \in {"cleanup", "off"} /\ l.exitReason = "switch" /\ ~l.spawned

\* C32: when the queue is non-empty as the Local driver is entered, the
\* driver returns 'switch' without spawning the assistant process and
\* without discarding the queued messages, and its hook receiver, settings
\* file and synchronizer are torn down before it returns (the loop then
\* enters Remote mode with the messages still queued).
C32_QueuedEntryReturnsSwitch ==
    /\ [][ /\ (LocalScannerCreated /\ size(mq) > 0) =>
                 /\ EarlyReturn(local')
                 /\ local'.child = "none"
                 /\ mq' = mq
                 /\ ScannerTornDown(local')
                 /\ session'.userInputHandler = "null" /\ session'.switchHandler = "null"
           /\ (local.pc # "off" /\ local'.pc = "off" /\ ~local.spawned) =>
                 /\ EarlyReturn(local')
                 /\ ~local'.hookServer /\ ~local'.settingsFile /\ ScannerTornDown(local')
                 /\ size(mq') > 0
                 /\ loop'.pc = "top" /\ loop'.mode = "remote"
       ]_vars
    /\ [](local.pc = "cleanup" /\ ~local.spawned =>
             size(mq) > 0 /\ local.child = "none" /\ ScannerTornDown(local))

\* the Local driver returned 'switch' from an entry with a queued message
\* and the loop is about to enter Remote mode
C32_Witness ==
    /\ local.pc = "off" /\ EarlyReturn(local)
    /\ size(mq) > 0
    /\ ~local.hookServer /\ ~local.settingsFile
    /\ loop.pc = "top" /\ loop.mode = "remote" /\ loop.entered = 1

-----------------------------------------------------------------------------
(* C33 *)

\* the loop enters the Remote driver in this step
RemoteEntry == LoopTop /\ loop.mode = "remote"

\* a permission response is parked in the session
Parked == session.pendingPermissionResponse # NoPending

\* C33: on entry to the Remote driver exactly one 'continue' message is
\* pushed if a permission response is parked and the queue is empty (the
\* driver's first wait then takes it); if the queue already holds a message
\* or nothing is parked, nothing is pushed: the first wait takes the oldest
\* queued message and leaves the others, or suspends on an empty queue.
C33_ContinueOnlyForParkedResponse ==
    [][ RemoteEntry =>
          /\ Len(mq'.waits) = Len(mq.waits) + 1
          /\ (Parked /\ size(mq) = 0) =>
                /\ LastWait(mq') = ContinueMsg
                /\ mq'.queue = <<>>
          /\ (size(mq) > 0) =>
                /\ LastWait(mq') = Head(mq.queue)
                /\ mq'.queue = Tail(mq.queue)
          /\ (~Parked /\ size(mq) = 0) =>
                /\ LastWait(mq') = Suspended
                /\ mq'.queue = <<>>
      ]_vars

\* the Remote driver was entered with a parked response and an empty queue
\* and is submitting the 'continue' message
C33_Witness ==
    /\ loop.pc = "remote" /\ remote.pc = "streaming"
    /\ Len(mq.waits) > 0 /\ LastWait(mq) = ContinueMsg

\* the Remote driver was entered with a parked response and a queued
\* message, and took the queued message
C33_WitnessQueued ==
    /\ loop.pc = "remote" /\ remote.pc = "streaming"
    /\ Parked
    /\ Len(mq.waits) > 0 /\ LastWait(mq) # ContinueMsg /\ LastWait(mq) # Suspended

-----------------------------------------------------------------------------
(* C34 *)

\* C34: the lines that createSessionScanner read from the file of the
\* initial session are marked as seen and never passed to onMessage by that
\* scanner; what is passed to onMessage is a line of the file its pass read
\* that was not among them, i.e. one appended afterwards.
C34_ExistingNeverForwarded ==
    /\ scan.existing \subseteq scan.scanner.processedMessageKeys
    /\ ForwardedKeys \cap scan.existing = {}
    /\ \A i \in OnMessageCalls :
          LET m == scan.out[i][2]
              content == scan.files[scan.passes[scan.out[i][3]].target]
          IN  /\ \E k \in 1..Len(content) : content[k] = m
              /\ messageKey(m) \notin scan.existing

\* a pass on the initial session's file read a line that was there at
\* creation and a line appended later, and forwarded the later one only
C34_Witness ==
    \E p \in 1..Len(scan.passes) :
        /\ Done(p) /\ scan.passes[p].target = 1
        /\ scan.existing # {}
        /\ Len(scan.passes[p].messages) = 2
        /\ messageKey(scan.passes[p].messages[1]) \in scan.existing
        /\ \E i \in OnMessageCalls \cap CallsOf(p) : scan.out[i][2] = scan.passes[p].messages[2]
        /\ Cardinality(OnMessageCalls) = 1

-----------------------------------------------------------------------------
(* C35 *)

\* the permission request whose wait the session's resolver belongs to is
\* outstanding in the Remote driver that is running now
OutstandingInActiveRemote(i) ==
    /\ i \in 1..Len(requests)
    /\ loop.pc = "remote" /\ remote.pc = "permission"
    /\ requests[i].inv = remote.inv
    /\ requests[i].answer = "waiting"

\* C35 (as stated): a tool name is added to alwaysAllowedTools only when an
\* 'always' response answers a permission request for that same tool that
\* is outstanding in the currently active Remote driver; a response
\* received while the Local driver is active, or after the Remote driver
\* that issued the request was cancelled, never adds a tool.
C35_Original ==
    [][ session'.alwaysAllowedTools # session.alwaysAllowedTools =>
          /\ WsPermissionResponse("always")
          /\ OutstandingInActiveRemote(session.permissionResolver)
          /\ session'.alwaysAllowedTools =
                session.alwaysAllowedTools \cup {requests[session.permissionResolver].tool}
      ]_vars

\* what holds: a tool name is added only by an 'always' response that
\* resolves the wait the session's resolver belongs to, and it is the tool
\* of that wait's request, whether or not its driver is still running
C35_AddedOnlyByResolvedWait ==
    [][ session'.alwaysAllowedTools # session.alwaysAllowedTools =>
          /\ WsPermissionResponse("always")
          /\ session.permissionResolver \in 1..Len(requests)
          /\ requests[session.permissionResolver].answer = "waiting"
          /\ session'.alwaysAllowedTools =
                session.alwaysAllowedTools \cup {requests[session.permissionResolver].tool}
      ]_vars

-----------------------------------------------------------------------------
(***************************************************************************)
(* SpecRemote: one call of claudeRemote with the queue it reads.  The      *)
(* record keeps what the call did with each message: taken is what its     *)
(* nextMessage calls returned, msgStream what it pushed to the prompt      *)
(* stream of which query, onMessage the user messages it passed to         *)
(* opts.onMessage (rendered and sent to the collaborator as claude_event). *)
(***************************************************************************)

\* how many things the collaborator, the operator and the assistant do
MaxQueryEvents == 5

NewRemoteCall(startFrom) ==
    [pc |-> "start", startFrom |-> startFrom, aborted |-> FALSE, retries |-> 0,
     queries |-> 0, firstMessage |-> Null,
     taken |-> <<>>, msgStream |-> <<>>, onMessage |-> <<>>]

othersR == <<hist, session, now, ticks, calls, loop, local, requests, turn, scan, ws, hook>>

InitRemote ==
    /\ remote \in {NewRemoteCall(startFrom) : startFrom \in BOOLEAN}
    /\ mq = NewQueue
    /\ env = [events |-> 0, prompts |-> 0]
    /\ hist = <<>> /\ session = Unused /\ now = 0 /\ ticks = 0
    /\ calls = <<>> /\ loop = Unused /\ local = Unused
    /\ requests = <<>> /\ turn = "idle" /\ scan = Unused /\ ws = Unused /\ hook = Unused

\* runQuery up to its for-await: a fresh prompt stream and a new query, the
\* initial message pushed to the stream and passed to opts.onMessage
runQuery(r, resume, initialMessage) ==
    [r EXCEPT !.pc = "streaming", !.queries = @ + 1,
              !.msgStream = Append(@, <<r.queries + 1, initialMessage>>),
              !.onMessage = Append(@, initialMessage)]

\* claudeRemote after `await opts.nextMessage()` returned its first message
afterFirstMessage(r, m) ==
    IF m = Null THEN [r EXCEPT !.pc = "off"]
    ELSE runQuery([r EXCEPT !.firstMessage = m, !.taken = Append(@, m)], r.startFrom, m)

\* runQuery after `await opts.nextMessage()` returned at a result message
afterNextMessage(r, m) ==
    IF m = Null THEN [r EXCEPT !.pc = "off"]
    ELSE [r EXCEPT !.pc = "streaming", !.taken = Append(@, m),
                   !.msgStream = Append(@, <<r.queries, m>>),
                   !.onMessage = Append(@, m)]

\* the continuation of the call once its pending wait is resolved with m
resumeWith(r, m) ==
    IF r.pc = "firstMessage" THEN afterFirstMessage(r, m)
    ELSE IF r.pc = "nextMessage" THEN afterNextMessage(r, m)
    ELSE r

RemoteEvent == env.events < MaxQueryEvents

\* the collaborator's user_input: Session.handleMessage pushes the prompt; a
\* suspended wait of the call is resolved with it
RqUserInput ==
    /\ RemoteEvent
    /\ env' = [events |-> env.events + 1, prompts |-> env.prompts + 1]
    /\ mq' = push(mq, Prompt(env.prompts + 1))
    /\ remote' = IF mq.waitResolve # 0 THEN resumeWith(remote, Prompt(env.prompts + 1))
                 ELSE remote
    /\ UNCHANGED othersR

\* claudeRemote is called and waits for its first message
RqStart ==
    /\ remote.pc = "start"
    /\ mq' = waitForMessage(mq)
    /\ remote' = IF LastWait(mq') = Suspended THEN [remote EXCEPT !.pc = "firstMessage"]
                 ELSE afterFirstMessage(remote, LastWait(mq'))
    /\ UNCHANGED <<env, othersR>>

\* the query yields a result message: the loop awaits the next message
RqResult ==
    /\ RemoteEvent /\ remote.pc = "streaming" /\ ~remote.aborted
    /\ env' = [env EXCEPT !.events = @ + 1]
    /\ mq' = waitForMessage(mq)
    /\ remote' = IF LastWait(mq') = Suspended THEN [remote EXCEPT !.pc = "nextMessage"]
                 ELSE afterNextMessage(remote, LastWait(mq'))
    /\ UNCHANGED othersR

\* a switch or exit request: the launcher resets the queue and aborts
RqAbort ==
    /\ RemoteEvent /\ remote.pc \in {"firstMessage", "streaming", "nextMessage"}
    /\ ~remote.aborted
    /\ env' = [env EXCEPT !.events = @ + 1]
    /\ mq' = reset(mq)
    /\ remote' = resumeWith([remote EXCEPT !.aborted = TRUE], Null)
    /\ UNCHANGED othersR

\* the iteration of the query's response throws (the resume failed, the
\* assistant process broke, or the abort ended it): the catch block
RqThrows ==
    /\ remote.pc = "streaming"
    /\ remote.aborted \/ RemoteEvent
    /\ env' = IF remote.aborted THEN env ELSE [env EXCEPT !.events = @ + 1]
    /\ remote' = IF retriesFresh(remote)
                 THEN runQuery([remote EXCEPT !.retries = @ + 1], FALSE, remote.firstMessage)
                 ELSE [remote EXCEPT !.pc = "off"]
    /\ UNCHANGED <<mq, othersR>>

\* the response ends without a failure
RqStreamEnds ==
    /\ remote.pc = "streaming"
    /\ remote.aborted \/ RemoteEvent
    /\ env' = IF remote.aborted THEN env ELSE [env EXCEPT !.events = @ + 1]
    /\ remote' = [remote EXCEPT !.pc = "off"]
    /\ UNCHANGED <<mq, othersR>>

NextRemote ==
    \/ RqUserInput
    \/ RqStart
    \/ RqResult
    \/ RqAbort
    \/ RqThrows
    \/ RqStreamEnds

SpecRemote == InitRemote /\ [][NextRemote]_vars

-----------------------------------------------------------------------------
(* C36 *)

\* how often m was pushed to a prompt stream, and passed to opts.onMessage
Submissions(m) == Cardinality({k \in 1..Len(remote.msgStream) : remote.msgStream[k][2] = m})
Forwards(m) == Cardinality({k \in 1..Len(remote.onMessage) : remote.onMessage[k] = m})

\* C36 (as stated): every message the Remote driver takes from the queue is
\* submitted to the assistant exactly once and forwarded to the collaborator
\* exactly once, over the whole invocation including the fresh-session retry.
C36_Original ==
    \A k \in 1..Len(remote.taken) :
        Submissions(remote.taken[k]) = 1 /\ Forwards(remote.taken[k]) = 1

\* what holds: each taken message is submitted and forwarded together, once
\* per query it was given to, and only the first message is given to two
\* queries, the second one being the retry
C36_OncePerQuery ==
    /\ \A k \in 1..Len(remote.taken) :
          LET m == remote.taken[k]
          IN  /\ Submissions(m) = Forwards(m)
              /\ Submissions(m) = IF m = remote.firstMessage THEN 1 + remote.retries ELSE 1
    /\ Len(remote.msgStream) = Len(remote.onMessage)
    /\ \A k \in 1..Len(remote.msgStream) :
          /\ remote.msgStream[k][2] = remote.onMessage[k]
          /\ \E j \in 1..Len(remote.taken) : remote.taken[j] = remote.onMessage[k]
    /\ remote.retries <= 1

\* the retry ran after a later message had been submitted to the failed
\* query: the first message was replayed, the later one was not
C36_RetryReplaysFirstOnly ==
    ~(/\ remote.retries = 1
      /\ Len(remote.taken) = 2
      /\ Submissions(remote.taken[1]) = 2
      /\ Submissions(remote.taken[2]) = 1
      /\ remote.msgStream[Len(remote.msgStream)] = <<2, remote.firstMessage>>)

-----------------------------------------------------------------------------
(* C37 *)

\* C37 (as stated), the watcher and the timers: once the Local driver's
\* `await scanner.cleanup()` has completed and the driver has returned, the
\* scanner holds no watcher and no timer, however cleanup interleaved with
\* an onNewSession call from the hook receiver.
C37_Original == local.pc = "off" => ScannerTornDown(local)

\* C37 (as stated), the calls, in SpecScanner: after cleanup() the scanner
\* calls neither onMessage nor the idle observer, however cleanup
\* interleaved with a sync pass in flight.
C37_NoCallAfterCleanup == [][scan.cleaned => scan'.out = scan.out]_vars

\* C37 (as stated), the watcher and the timers, in SpecScanner
C37_NothingActiveAfterCleanup ==
    scan.cleaned =>
        ~scan.scanner.watcher /\ ~scan.scanner.interval /\ ~scan.scanner.syncTimeout

\* what holds: cleanup() itself leaves no watcher and no timer, the
\* periodic timer never comes back, and without a pass in flight and
\* without a later onNewSession nothing is called and nothing is created
C37_CleanupItself ==
    /\ [][(~scan.cleaned /\ scan'.cleaned) =>
             ~scan'.scanner.watcher /\ ~scan'.scanner.interval /\ ~scan'.scanner.syncTimeout]_vars
    /\ [](scan.cleaned => ~scan.scanner.interval)
    /\ [][(scan.cleaned /\ scan'.out # scan.out) =>
             \E p \in 1..Len(scan.passes) : scan.passes[p].phase = "read"]_vars
    /\ [][(scan.cleaned /\ ~scan.scanner.watcher /\ scan'.scanner.watcher) =>
             scan'.scanner.currentSessionId # scan.scanner.currentSessionId]_vars

-----------------------------------------------------------------------------
(* C38 *)

\* C38: at every instant the transport has at most one socket that has not
\* closed (so at most one that is connecting or open), at most one pending
\* reconnect timer and at most one keep-alive timer; the keep-alive timer
\* runs only while the socket is open, and a reconnect timer is pending only
\* while there is no socket.
C38_OneSocketOneTimer ==
    /\ ws.sockets \in {0, 1}
    /\ ws.reconnectTimers \in {0, 1}
    /\ ws.pingTimers \in {0, 1}
    /\ ws.pingTimers = 1 => ws.readyState = "OPEN"
    /\ ws.reconnectTimers = 1 => ws.sockets = 0
    /\ ws.sockets = 1 <=> ws.readyState # "CLOSED"
    /\ ws.reconnectTimers = 1 <=> ws.reconnectTimer # 0
    /\ ws.pingTimers = 1 <=> ws.pingTimer

\* close() was called while a reconnect timer was pending; the timer fired
\* and the new socket opened: one socket, one keep-alive timer
C38_Witness ==
    /\ ws.isIntentionallyClosed
    /\ ws.readyState = "OPEN" /\ ws.opens = 2
    /\ ws.sockets = 1 /\ ws.pingTimers = 1 /\ ws.reconnectTimers = 0

-----------------------------------------------------------------------------
(* C39 *)

\* C39: within one driver invocation the exit reason is decided once.  The
\* first switch or exit request sets it; once set it does not change while
\* the invocation lasts, whatever request comes later; and the driver
\* hands exactly that reason to the loop when it returns.
C39_ExitReasonDecidedOnce ==
    [][ /\ (remote.exitReason # "null" /\ remote'.inv = remote.inv) =>
              remote'.exitReason = remote.exitReason
        /\ (local.exitReason # "null" /\ local'.pc # "startHookServer") =>
              local'.exitReason = local.exitReason
        /\ \A reason \in {"switch", "exit"} :
              (Keypress(reason) /\ remote.exitReason = "null") => remote'.exitReason = reason
        /\ (WsSwitch /\ session.switchHandler = "remote" /\ remote.exitReason = "null") =>
              remote'.exitReason = "switch"
        /\ (WsSwitch /\ session.switchHandler = "local" /\ local.exitReason = "null") =>
              local'.exitReason = "switch"
        /\ (remote.pc # "off" /\ remote'.pc = "off") => loop' = loopAfter(remote'.exitReason)
        /\ (local.pc # "off" /\ local'.pc = "off") => loop' = loopAfter(local'.exitReason)
      ]_vars

\* Ctrl+C decided 'exit' in the Remote driver, the aborted query has not
\* ended yet, and a switch key or a switch request can still arrive
C39_Witness ==
    /\ loop.pc = "remote" /\ remote.pc = "streaming"
    /\ remote.exitReason = "exit" /\ remote.aborted
    /\ remote.keypress /\ session.switchHandler = "remote"
    /\ MayAct

\* the Local driver decided 'switch' and its subprocess has not exited yet
C39_WitnessLocal ==
    /\ loop.pc = "local" /\ local.pc = "claudeLocal"
    /\ local.exitReason = "switch" /\ local.child = "signalled"
    /\ session.switchHandler = "local"
    /\ MayAct

-----------------------------------------------------------------------------
(* C40 *)

C40_OrphanBesideBacklog ==
    ~(Orphans(mq) # {} /\ mq.queue # <<>>)

====
